---- MODULE Spec2Model ----
(***************************************************************************)
(* Model of the jnv JSON validator: the immutable model tree               *)
(* (src/src/models.ts), the per-node Settings (src/src/copy.bench.ts,      *)
(* lines 85-178), Metadata (src/src/options.ts, lines 30-239), the         *)
(* SafeStack (src/src/stack.ts) and the validation Context                 *)
(* (src/src/context.ts).                                                   *)
(*                                                                         *)
(* validate() is synchronous and recursive; it is modelled by recursive    *)
(* operators that thread the Context record through the traversal and      *)
(* return either a TRes or a thrown exception.  The state machine builds a *)
(* model tree with the factory and modifier methods and validates inputs.  *)
(***************************************************************************)
EXTENDS Integers, Sequences, FiniteSets, TLC

VARIABLES
  factory,   \* options of the root Factory: [throwIfError, createMode]
  root,      \* the Model under construction / validation
  stage,     \* position of the schema-building session
  input,     \* argument of the last validate() call
  output,    \* what the last validate() call returned or threw
  tracker,   \* a SafeStack on its own: the PathTracker of test 'PathControl'
  created,   \* number of TStackNode objects that `tracker` created
  pushedOn,  \* for each of them, `tracker` as it was when push() was called
  lastCall,  \* the last call on `tracker`, and `tracker` as it was then
  context,   \* a Context on its own, between the calls of the validators
  lastAdd,   \* the last call on `context`, and `context` as it was then
  heap,      \* the Model, Settings and Metadata objects of a configuration
  made,      \* for each Model of `heap`, the call that returned it
  lastOp,    \* the last call on a Model of `heap`, and `heap` as it was then
  running,   \* the validate() calls in progress and their Context objects
  collected  \* the last getConfigureError() call on `root` and what it returned

vars == <<factory, root, stage, input, output, tracker, created, pushedOn, lastCall,
          context, lastAdd, heap, made, lastOp, running, collected>>

\* The variables of a validation session and those of the stack on its own.
sessionVars == <<factory, root, stage, input, output, collected>>
stackVars == <<tracker, created, pushedOn, lastCall>>
contextVars == <<context, lastAdd>>
nodeVars == <<heap, made, lastOp>>
runVars == <<running>>

-----------------------------------------------------------------------------
(* Bounds of the exploration.                                              *)

\* Longest array passed to validate().
MaxLen == 3

\* The number that belongs to no literal or enum of the explored schemas.
OtherNum == 99

\* Most pushes on the stack that is explored on its own.
MaxPush == 4

\* Most scopes and models entered in the Context that is explored on its own.
MaxEnter == 4

\* Most Model objects of a configuration that is explored on its own.
MaxNodes == 3

\* Most objects that are given to validate() or returned by it.
MaxObjects == 3

\* Most calls on its Context that a validate() in progress makes.
MaxSteps == 3

-----------------------------------------------------------------------------
(* JSON-like values.  Every value is a record of one shape                 *)
(* [t, n, s, a]: t is the JavaScript type, n the number or boolean(0/1),   *)
(* s the string, a the array items or the object's properties in           *)
(* insertion order (a property is a value with t = "prop", s = its name    *)
(* and a = <<its value>>).                                                 *)

Val(t, n, s, a) == [t |-> t, n |-> n, s |-> s, a |-> a]

Null == Val("null", 0, "", <<>>)
Undefined == Val("undefined", 0, "", <<>>)
Num(n) == Val("number", n, "", <<>>)
Str(s) == Val("string", 0, s, <<>>)
Arr(items) == Val("array", 0, "", items)
Prop(k, v) == Val("prop", 0, k, <<v>>)
Obj(props) == Val("object", 0, "", props)

\* The Symbol('Empty_Value') that marks an unset default or expectedType.
emptyValue == Val("empty", 0, "", <<>>)

isNumber(v) == v.t = "number"
isArray(v) == v.t = "array"
isPlainObject(v) == v.t = "object"

RECURSIVE PropIndex(_, _, _)
\* Index of the own property `key` in the property list, 0 when absent.
PropIndex(props, key, i) ==
  IF i > Len(props) THEN 0
  ELSE IF props[i].s = key THEN i
  ELSE PropIndex(props, key, i + 1)

hasOwn(obj, key) == PropIndex(obj.a, key, 1) # 0

\* obj[key]
GetProp(obj, key) == obj.a[PropIndex(obj.a, key, 1)].a[1]

\* obj[key] = v : an existing property keeps its place, a new one is appended.
SetProp(obj, key, v) ==
  LET i == PropIndex(obj.a, key, 1)
  IN IF i = 0
     THEN Obj(Append(obj.a, Prop(key, v)))
     ELSE Obj([obj.a EXCEPT ![i] = Prop(key, v)])

\* plainCopy() of a JSON-like value is the same value in a new object;
\* values have no identity here, so the copy is the value.
plainCopy(v) == v

-----------------------------------------------------------------------------
(* Property names: null (root), an array index or an object key.           *)

KeyNull == [t |-> "null", n |-> 0, s |-> ""]
KeyIdx(i) == [t |-> "index", n |-> i, s |-> ""]
KeyName(s) == [t |-> "name", n |-> 0, s |-> s]

DEFAULT_ROOT_NAME == "<root>"

propertyNameToString(key) ==
  IF key.t = "null" THEN DEFAULT_ROOT_NAME
  ELSE IF key.t = "name" THEN key.s
  ELSE "[" \o ToString(key.n) \o "]"

RECURSIVE JoinDot(_, _)
JoinDot(keys, i) ==
  IF i > Len(keys) THEN ""
  ELSE IF i = Len(keys) THEN propertyNameToString(keys[i])
  ELSE propertyNameToString(keys[i]) \o "." \o JoinDot(keys, i + 1)

propertyPathToString(keys) == JoinDot(keys, 1)

RECURSIVE valueToString(_), JoinComma(_, _)
\* The text of a value in an error detail: its JSON text.
valueToString(v) ==
  CASE v.t = "number" -> ToString(v.n)
    [] v.t = "string" -> "\"" \o v.s \o "\""
    [] v.t = "array" -> "[" \o JoinComma(v.a, 1) \o "]"
    [] v.t = "object" -> "{" \o JoinComma(v.a, 1) \o "}"
    [] v.t = "prop" -> "\"" \o v.s \o "\":" \o valueToString(v.a[1])
    [] OTHER -> v.t

JoinComma(items, i) ==
  IF i > Len(items) THEN ""
  ELSE IF i = Len(items) THEN valueToString(items[i])
  ELSE valueToString(items[i]) \o "," \o JoinComma(items, i + 1)

-----------------------------------------------------------------------------
(* SafeStack (src/src/stack.ts).  The linked list is the sequence of its   *)
(* nodes from the first pushed to `prev`; a node is [node, value] where    *)
(* `node` is the identity of the TStackNode object captured by the release *)
(* closure.                                                                *)

\* A faulty release closure that only releases the top of the stack.
SafeStackReleaseTopOnly(stack, node) ==
  IF stack # <<>> /\ stack[Len(stack)].node = node
  THEN SubSeq(stack, 1, Len(stack) - 1)
  ELSE stack

\* A faulty release closure that takes its node for the top of the stack.
SafeStackReleasePop(stack, node) ==
  IF stack # <<>> THEN SubSeq(stack, 1, Len(stack) - 1) ELSE stack

SafeStackPush(stack, node, value) == Append(stack, [node |-> node, value |-> value])

\* The closure returned by push(), called for the TStackNode `node`.
SafeStackRelease(stack, node) ==
  IF stack # <<>> /\ stack[Len(stack)].node = node
  THEN SubSeq(stack, 1, Len(stack) - 1)
  ELSE LET found == {i \in 1..(Len(stack) - 1) : stack[i].node = node}
       IN IF found = {} THEN stack
          ELSE SubSeq(stack, 1, (CHOOSE i \in found : TRUE) - 1)

SafeStackTop(stack) == stack[Len(stack)].value

SafeStackIsEmpty(stack) == stack = <<>>

\* PathTracker.getPath(): the values from the first pushed to the last.
PathTrackerGetPath(stack) == [i \in 1..Len(stack) |-> stack[i].value]

PathTrackerToString(stack) == propertyPathToString(PathTrackerGetPath(stack))

-----------------------------------------------------------------------------
(* Error details (src/src/errors.ts).                                      *)

Detail(code, propertyPath, valueOrType, requiredPropertyName, message) ==
  [code |-> code, propertyPath |-> propertyPath, valueOrType |-> valueOrType,
   requiredPropertyName |-> requiredPropertyName, message |-> message]

errorDetailsRequiredPropertyError(propertyPath, requiredPropertyName) ==
  Detail("RequiredPropertyError", propertyPath, "", requiredPropertyName, "")

errorDetailsFaultyValueError(propertyPath, valueOrType, message) ==
  Detail("FaultyValueError", propertyPath, valueOrType, "", message)

errorDetailsNotConfiguredError(propertyPath, valueOrType) ==
  Detail("NotConfiguredError", propertyPath, valueOrType, "", "")

errorDetailsUnknownError(propertyPath, message) ==
  Detail("UnknownError", propertyPath, "", "", message)

\* The codes of errorCodes; any other code is replaced by UnknownError.
ErrorCodes == {"UnknownError", "ConfigureError", "ModelIsFrozenError",
               "RequiredPropertyError", "FaultyValueError", "NotConfiguredError"}

insureErrorLike(raw) ==
  IF raw.code \in ErrorCodes THEN raw ELSE [raw EXCEPT !.code = "UnknownError"]

\* The class thrown for a detail: its code names it.
getErrorClassByCode(code) == IF code \in ErrorCodes THEN code ELSE "UnknownError"

\* objInArray(): is a detail with the same own properties in the list.
objInArray(array, value) == \E i \in 1..Len(array) : array[i] = value

-----------------------------------------------------------------------------
(* Context (src/src/context.ts).  `nodes` counts the TStackNode objects    *)
(* created so far and gives each its identity; `visited` is a history      *)
(* variable listing the models entered, in order.  A release closure is    *)
(* the identity of the TStackNode it captured, which for a push on `ctx`   *)
(* is NextNode(ctx).                                                       *)

NewContext(config, settings) ==
  [errorDetails |-> <<>>, warnDetails |-> <<>>,
   typeMatchingControl |-> <<>>, warningControl |-> <<>>, stopErrorControl |-> <<>>,
   pathTracker |-> <<>>, modelTracker |-> <<>>,
   config |-> config, settings |-> settings,
   nodes |-> 0, visited |-> <<>>]

NextNode(ctx) == ctx.nodes + 1

enterTypeMatching(ctx) ==
  [ctx EXCEPT !.typeMatchingControl = SafeStackPush(@, ctx.nodes + 1, Null),
              !.nodes = @ + 1]

ReleaseTypeMatching(ctx, node) ==
  [ctx EXCEPT !.typeMatchingControl = SafeStackRelease(@, node)]

enterOnlyWarning(ctx) ==
  [ctx EXCEPT !.warningControl = SafeStackPush(@, ctx.nodes + 1, Null),
              !.nodes = @ + 1]

ReleaseOnlyWarning(ctx, node) ==
  [ctx EXCEPT !.warningControl = SafeStackRelease(@, node)]

pushKey(ctx, key) ==
  [ctx EXCEPT !.pathTracker = SafeStackPush(@, ctx.nodes + 1, key),
              !.nodes = @ + 1]

ReleaseKey(ctx, node) ==
  [ctx EXCEPT !.pathTracker = SafeStackRelease(@, node)]

getPath(ctx) == PathTrackerGetPath(ctx.pathTracker)

getPathAsStr(ctx) == PathTrackerToString(ctx.pathTracker)

\* A faulty isThrowEnabled() that forgets the type-matching scope.
isThrowEnabledWhileMatching(ctx) ==
  IF \/ ~SafeStackIsEmpty(ctx.stopErrorControl)
     \/ ~SafeStackIsEmpty(ctx.warningControl)
     \/ ctx.settings.stopIfError
  THEN FALSE
  ELSE IF ~SafeStackIsEmpty(ctx.modelTracker)
       THEN SafeStackTop(ctx.modelTracker).config.throwIfError
       ELSE ctx.config.throwIfError

\* A faulty isThrowEnabled() that forgets the settings of the root model.
isThrowEnabledUnderStoppedRoot(ctx) ==
  IF \/ ~SafeStackIsEmpty(ctx.typeMatchingControl)
     \/ ~SafeStackIsEmpty(ctx.stopErrorControl)
     \/ ~SafeStackIsEmpty(ctx.warningControl)
  THEN FALSE
  ELSE IF ~SafeStackIsEmpty(ctx.modelTracker)
       THEN SafeStackTop(ctx.modelTracker).config.throwIfError
       ELSE ctx.config.throwIfError

isThrowEnabled(ctx) ==
  IF \/ ~SafeStackIsEmpty(ctx.typeMatchingControl)
     \/ ~SafeStackIsEmpty(ctx.stopErrorControl)
     \/ ~SafeStackIsEmpty(ctx.warningControl)
     \/ ctx.settings.stopIfError
  THEN FALSE
  ELSE IF ~SafeStackIsEmpty(ctx.modelTracker)
       THEN SafeStackTop(ctx.modelTracker).config.throwIfError
       ELSE ctx.config.throwIfError

\* A faulty enterModel() that never enters a stop-on-error scope.
enterModelWithoutScope(ctx, config, settings) ==
  [ctx EXCEPT !.modelTracker =
                SafeStackPush(@, ctx.nodes + 1, [config |-> config, settings |-> settings]),
              !.nodes = IF settings.stopIfError THEN @ + 2 ELSE @ + 1]

\* enterModel(): the model is pushed, and a stop-on-error scope when the
\* settings stop errors.
enterModel(ctx, config, settings) ==
  [ctx EXCEPT !.modelTracker =
                SafeStackPush(@, ctx.nodes + 1, [config |-> config, settings |-> settings]),
              !.stopErrorControl =
                IF settings.stopIfError THEN SafeStackPush(@, ctx.nodes + 2, Null) ELSE @,
              !.nodes = IF settings.stopIfError THEN @ + 2 ELSE @ + 1]

\* The closure returned by enterModel(ctx, config, settings): exitModel(),
\* and exitScope() when a scope was entered; `node` is NextNode(ctx).
ReleaseModel(ctx, node, settings) ==
  [ctx EXCEPT !.modelTracker = SafeStackRelease(@, node),
              !.stopErrorControl =
                IF settings.stopIfError THEN SafeStackRelease(@, node + 1) ELSE @]

addWarning(ctx, detail) ==
  IF SafeStackIsEmpty(ctx.typeMatchingControl) /\ ~objInArray(ctx.warnDetails, detail)
  THEN [ctx EXCEPT !.warnDetails = Append(@, detail)]
  ELSE ctx

\* A faulty addError() that takes no scope but type matching into account.
addErrorAsError(ctx, detail) ==
  IF SafeStackIsEmpty(ctx.typeMatchingControl) /\ ~objInArray(ctx.errorDetails, detail)
  THEN [ctx EXCEPT !.errorDetails = Append(@, detail)]
  ELSE ctx

\* A faulty addError() that registers during type matching too.
addErrorWhileMatching(ctx, detail) ==
  IF SafeStackIsEmpty(ctx.stopErrorControl) /\ SafeStackIsEmpty(ctx.warningControl)
  THEN IF ~objInArray(ctx.errorDetails, detail)
       THEN [ctx EXCEPT !.errorDetails = Append(@, detail)]
       ELSE ctx
  ELSE IF ~objInArray(ctx.warnDetails, detail)
       THEN [ctx EXCEPT !.warnDetails = Append(@, detail)]
       ELSE ctx

addError(ctx, detail) ==
  IF SafeStackIsEmpty(ctx.typeMatchingControl)
  THEN IF SafeStackIsEmpty(ctx.stopErrorControl) /\ SafeStackIsEmpty(ctx.warningControl)
       THEN IF ~objInArray(ctx.errorDetails, detail)
            THEN [ctx EXCEPT !.errorDetails = Append(@, detail)]
            ELSE ctx
       ELSE IF ~objInArray(ctx.warnDetails, detail)
            THEN [ctx EXCEPT !.warnDetails = Append(@, detail)]
            ELSE ctx
  ELSE ctx

-----------------------------------------------------------------------------
(* Outcome of a call: a TRes {ok, value} or a thrown exception, with the   *)
(* Context as the call left it.  `arg` is the argument object as the call  *)
(* left it (containers are rewritten in place when the create mode says    *)
(* so) and `same` tells that `value` is that very object.  `defaultOf` is  *)
(* <<settings>> when `value` is what settings.getDefaultValue() returned   *)
(* and <<>> otherwise.  `scoped` is a history field: the exception was     *)
(* thrown while a type-matching, a warning-only or a stop-on-error scope   *)
(* was entered.                                                            *)

NoDetail == Detail("", "", "", "", "")

Ret(ctx, ok, value) ==
  [ctx |-> ctx, thrown |-> FALSE, ok |-> ok, value |-> value,
   cls |-> "", detail |-> NoDetail, arg |-> emptyValue, same |-> FALSE,
   scoped |-> FALSE, defaultOf |-> <<>>]

\* throw new cls(detail); cls = "raw" is a value that is no JnvError.
Throw(ctx, cls, detail) ==
  [ctx |-> ctx, thrown |-> TRUE, ok |-> FALSE, value |-> Null,
   cls |-> cls, detail |-> detail, arg |-> emptyValue, same |-> FALSE,
   scoped |-> \/ ~SafeStackIsEmpty(ctx.typeMatchingControl)
              \/ ~SafeStackIsEmpty(ctx.warningControl)
              \/ ~SafeStackIsEmpty(ctx.stopErrorControl),
   defaultOf |-> <<>>]

\* A call that returns its argument untouched.
Pass(ctx, value) == [Ret(ctx, TRUE, value) EXCEPT !.arg = value, !.same = TRUE]

\* The outcome r of a call whose argument is left as `arg`.
WithArg(r, arg) == [r EXCEPT !.arg = arg]

getDefaultValue(settings) ==
  IF settings.defaultValue = emptyValue THEN Null ELSE plainCopy(settings.defaultValue)

hasDefaultValue(settings) == settings.defaultValue # emptyValue

\* A faulty _throwOrResult() that substitutes no default.
ThrowOrResultWithoutDefault(ctx, detail, cls) ==
  IF isThrowEnabled(ctx) THEN Throw(ctx, cls, detail) ELSE Ret(ctx, FALSE, Null)

\* A faulty _throwOrResult() that looks at the settings of the Context, those
\* of the root, and not at those of the model that is being validated.
ThrowOrResultOfRoot(ctx, detail, cls) ==
  IF isThrowEnabled(ctx) THEN Throw(ctx, cls, detail)
  ELSE IF ctx.settings.stopIfError
  THEN [Ret(ctx, TRUE, getDefaultValue(ctx.settings)) EXCEPT !.defaultOf = <<ctx.settings>>]
  ELSE Ret(ctx, FALSE, Null)

\* _throwOrResult() after its addError(detail).
ThrowOrResultAfter(ctx, detail, cls) ==
  IF isThrowEnabled(ctx) THEN Throw(ctx, cls, detail)
  ELSE IF (IF ~SafeStackIsEmpty(ctx.modelTracker)
           THEN SafeStackTop(ctx.modelTracker).settings
           ELSE ctx.settings).stopIfError
  THEN [Ret(ctx, TRUE,
            getDefaultValue(IF ~SafeStackIsEmpty(ctx.modelTracker)
                            THEN SafeStackTop(ctx.modelTracker).settings
                            ELSE ctx.settings))
          EXCEPT !.defaultOf = <<IF ~SafeStackIsEmpty(ctx.modelTracker)
                                 THEN SafeStackTop(ctx.modelTracker).settings
                                 ELSE ctx.settings>>]
  ELSE Ret(ctx, FALSE, Null)

\* A faulty _throwOrResult() that registers the error and never throws.
throwOrResultInBand(ctx, detail, cls) == Ret(addError(ctx, detail), FALSE, Null)

throwOrResult(ctx, detail, cls) == ThrowOrResultAfter(addError(ctx, detail), detail, cls)

\* A faulty throwRequiredPropertyError() that reports the name of the
\* property in place of its path.
throwRequiredPropertyErrorByName(ctx, requiredPropertyName) ==
  throwOrResult(ctx,
                errorDetailsRequiredPropertyError(requiredPropertyName, requiredPropertyName),
                "RequiredPropertyError")

throwRequiredPropertyError(ctx, requiredPropertyName) ==
  throwOrResult(ctx,
                errorDetailsRequiredPropertyError(getPathAsStr(ctx), requiredPropertyName),
                "RequiredPropertyError")

throwFaultyValueError(ctx, valueOrType, message) ==
  throwOrResult(ctx,
                errorDetailsFaultyValueError(getPathAsStr(ctx), valueToString(valueOrType),
                                             message),
                "FaultyValueError")

throwNotConfiguredError(ctx, valueOrType) ==
  throwOrResult(ctx,
                errorDetailsNotConfiguredError(getPathAsStr(ctx), valueToString(valueOrType)),
                "NotConfiguredError")

\* detail = NoDetail stands for the null argument.
throwCustomError(ctx, detail) ==
  IF detail = NoDetail
  THEN throwOrResult(ctx, errorDetailsUnknownError(getPathAsStr(ctx), ""), "UnknownError")
  ELSE throwOrResult(ctx, detail, getErrorClassByCode(detail.code))

arrayFaultyValueError(ctx, valueOrType) ==
  addWarning(ctx, errorDetailsFaultyValueError(getPathAsStr(ctx), valueToString(valueOrType),
                                               "array item ignored"))

-----------------------------------------------------------------------------
(* Config (src/src/config.ts).                                             *)

defaultConfig ==
  [throwIfConfigureError |-> FALSE, createMode |-> 0, throwIfError |-> FALSE,
   stopIfError |-> FALSE, removeFaulty |-> FALSE, scopeName |-> ""]

\* new DefaultConfig({throwIfError, createMode})
DefaultConfig(throwIfError, createMode) ==
  [defaultConfig EXCEPT !.throwIfError = throwIfError, !.createMode = createMode]

modeCopyObj(config) == config.createMode = 0 \/ config.createMode = 1

modeCopyArr(config) == config.createMode = 0 \/ config.createMode = 2

getValidateOptions(config) ==
  [stopIfError |-> config.stopIfError, removeFaulty |-> config.removeFaulty]

\* Config.extends({stopIfError, removeFaulty}, scopeName)
ConfigExtends(config, options, scopeName) ==
  [config EXCEPT !.stopIfError = options.stopIfError,
                 !.removeFaulty = options.removeFaulty,
                 !.scopeName = scopeName]

-----------------------------------------------------------------------------
(* Settings (src/src/copy.bench.ts, lines 85-178).                         *)

defaultSettings == [stopIfError |-> FALSE, removeFaulty |-> FALSE, optional |-> FALSE]

Settings(options, defaultValue) ==
  [stopIfError |-> options.stopIfError, removeFaulty |-> options.removeFaulty,
   optional |-> options.optional, readonlyFrozen |-> FALSE,
   defaultValue |-> IF defaultValue = emptyValue THEN emptyValue
                    ELSE plainCopy(defaultValue)]

\* new DefaultSettings(options): the options given override the defaults.
DefaultSettings(options) ==
  Settings([defaultSettings EXCEPT !.stopIfError = options.stopIfError,
                                   !.removeFaulty = options.removeFaulty],
           emptyValue)

SettingsOptions(settings) ==
  [stopIfError |-> settings.stopIfError, removeFaulty |-> settings.removeFaulty,
   optional |-> settings.optional]

isEqualDefaultValue(settings, value) == settings.defaultValue = value

\* Settings.copy(options, defaultValue): defaultValue = emptyValue stands for
\* the absent argument; the copy is never frozen.
SettingsCopy(settings, options, defaultValue) ==
  Settings(options,
           IF defaultValue # emptyValue THEN defaultValue ELSE settings.defaultValue)

-----------------------------------------------------------------------------
(* Metadata (src/src/options.ts, lines 30-239).  expectedType is split by  *)
(* its type: int (num), values (literal, enum), models (obj, tuple, union, *)
(* pipe; the item matcher of arr), fn (custom).  min and max are <<>> for  *)
(* null and <<n>> for the number n.                                        *)

Metadata(type) ==
  [type |-> type, min |-> <<>>, max |-> <<>>, exclusive |-> FALSE,
   int |-> FALSE, values |-> <<>>, models |-> <<>>, fn |-> "", errors |-> <<>>]

MetadataNone == Metadata("none")
MetadataRaw == Metadata("raw")
MetadataNum == Metadata("num")
MetadataLiteral(value) == [Metadata("literal") EXCEPT !.values = <<value>>]
MetadataEnum(set) == [Metadata("enum") EXCEPT !.values = set]
MetadataObj(models) == [Metadata("obj") EXCEPT !.models = models]
MetadataArr(union) == [Metadata("arr") EXCEPT !.models = <<union>>]
MetadataTuple(values) == [Metadata("tuple") EXCEPT !.models = values]
MetadataUnion(values) == [Metadata("union") EXCEPT !.models = values]
MetadataCustom(fun) == [Metadata("custom") EXCEPT !.fn = fun]
MetadataPipe(values) == [Metadata("pipe") EXCEPT !.models = values]

addConfigError(meta, detail) ==
  IF objInArray(meta.errors, detail) THEN meta
  ELSE [meta EXCEPT !.errors = Append(@, detail)]

-----------------------------------------------------------------------------
(* Model and its modifiers (src/src/models.ts, lines 105-474, 685-701).    *)

Model(config, settings, meta, key) ==
  [config |-> config, settings |-> settings, meta |-> meta, key |-> key]

errorDetailsConfigureError(propertyName, message) ==
  Detail("ConfigureError", propertyNameToString(propertyName), "", "", message)

errorDetailsModelIsFrozenError(propertyName) ==
  Detail("ModelIsFrozenError", propertyNameToString(propertyName), "", "", "")

isFrozen(m) == m.settings.readonlyFrozen

\* The model after _throwIfFrozen() returned true: the error is added to its
\* metadata (throwIfConfigureError is not set in the explored factories).
FrozenError(m) ==
  [m EXCEPT !.meta = addConfigError(@, errorDetailsModelIsFrozenError(m.key))]

copyWithSettings(m, settings) == [m EXCEPT !.settings = settings]

copyWithMeta(m, meta) == [m EXCEPT !.meta = meta]

SHALLOW_COPY(m, name) == [m EXCEPT !.key = name]

stopError(m) ==
  IF m.settings.stopIfError THEN m
  ELSE IF isFrozen(m) THEN FrozenError(m)
  ELSE copyWithSettings(m, SettingsCopy(m.settings,
                           [SettingsOptions(m.settings) EXCEPT !.stopIfError = TRUE],
                           emptyValue))

def(m, defaultValue) ==
  IF isEqualDefaultValue(m.settings, defaultValue) THEN m
  ELSE IF isFrozen(m) THEN FrozenError(m)
  ELSE copyWithSettings(m, SettingsCopy(m.settings, SettingsOptions(m.settings),
                                        defaultValue))

\* optional(defaultValue): defaultValue = Undefined is the absent argument.
optional(m, defaultValue) ==
  IF m.settings.optional
     /\ (defaultValue = Undefined \/ isEqualDefaultValue(m.settings, defaultValue))
  THEN m
  ELSE IF isFrozen(m) THEN FrozenError(m)
  ELSE copyWithSettings(m, SettingsCopy(m.settings,
                           [SettingsOptions(m.settings) EXCEPT !.optional = TRUE],
                           IF defaultValue = Undefined THEN emptyValue
                           ELSE defaultValue))

removeFaulty(m) ==
  IF m.settings.removeFaulty THEN m
  ELSE IF isFrozen(m) THEN FrozenError(m)
  ELSE copyWithSettings(m, SettingsCopy(m.settings,
                           [SettingsOptions(m.settings) EXCEPT !.removeFaulty = TRUE],
                           emptyValue))

\* range(min, max) without the `exclusive` argument.
setRange(m, min, max) ==
  IF m.meta.min = <<min>> /\ m.meta.max = <<max>> THEN m
  ELSE IF isFrozen(m) THEN FrozenError(m)
  ELSE IF max < min \/ (m.meta.type \in {"str", "arr"} /\ (min < 0 \/ max < 0))
  THEN [m EXCEPT !.meta = addConfigError(@, errorDetailsConfigureError(m.key,
                                               "range(min, max)"))]
  ELSE copyWithMeta(m, [m.meta EXCEPT !.min = <<min>>, !.max = <<max>>])

\* 0: the value is in range or there is no range, 1: below min, 2: above max.
checkMinMax(m, value) ==
  IF m.meta.min # <<>>
     /\ (IF m.meta.exclusive THEN value <= m.meta.min[1] ELSE value < m.meta.min[1])
  THEN 1
  ELSE IF m.meta.max # <<>>
          /\ (IF m.meta.exclusive THEN value >= m.meta.max[1]
              ELSE value > m.meta.max[1])
  THEN 2
  ELSE 0

\* model.pipe(...models)
pipe(m, models) ==
  Model(m.config, m.settings,
        MetadataPipe(<<SHALLOW_COPY(m, KeyNull)>>
                     \o [i \in 1..Len(models) |-> SHALLOW_COPY(models[i], KeyNull)]),
        m.key)

\* Metadata.getAllModels(): the models of an object, a tuple, a union or a
\* pipe; null, here <<>>, for every other type, the array among them.
getAllModels(meta) ==
  IF meta.type \in {"obj", "tuple", "union", "pipe"} THEN meta.models ELSE <<>>

\* The details with their propertyPath set to propPath.
WithPropertyPath(errors, propPath) ==
  [i \in 1..Len(errors) |-> [errors[i] EXCEPT !.propertyPath = propPath]]

RECURSIVE collectConfigureError(_, _), collectChildren(_, _, _)
\* Model._collectConfigureError(path, err): `errors` is what it pushes to
\* err, and `model` the model after it, with the details that getErrors()
\* took away from the metadata.
collectConfigureError(m, path) ==
  LET below == collectChildren(getAllModels(m.meta), Append(path, m.key), 1)
  IN [errors |-> WithPropertyPath(m.meta.errors,
                                  propertyPathToString(Append(path, m.key)))
                 \o below.errors,
      model |-> [m EXCEPT !.meta.errors = <<>>,
                          !.meta.models = IF getAllModels(m.meta) = <<>> THEN @
                                          ELSE below.models]]

\* The loop of _collectConfigureError() over the children from the i-th on.
collectChildren(children, extendsPath, i) ==
  IF i > Len(children) THEN [errors |-> <<>>, models |-> <<>>]
  ELSE LET first == collectConfigureError(children[i], extendsPath)
           rest == collectChildren(children, extendsPath, i + 1)
       IN [errors |-> first.errors \o rest.errors,
           models |-> <<first.model>> \o rest.models]

\* getConfigureError(): null, here <<>>, when nothing was collected.
getConfigureError(m) == collectConfigureError(m, <<>>)

-----------------------------------------------------------------------------
(* RootFactory and Factory.scope() (src/src/models.ts, lines 913-1332).    *)
(* A factory is [config, defaultSettings]; the arguments of the methods    *)
(* are Models.                                                             *)

RootFactory(config) ==
  [config |-> config, defaultSettings |-> DefaultSettings(getValidateOptions(config))]

scope(f, name, options) == RootFactory(ConfigExtends(f.config, options, name))

modelOf(name, value) == SHALLOW_COPY(value, name)

RootFactoryNum(f) == Model(f.config, f.defaultSettings, MetadataNum, KeyNull)

RootFactoryLiteral(f, value) ==
  Model(f.config, f.defaultSettings, MetadataLiteral(value), KeyNull)

RootFactoryEnum(f, values) ==
  Model(f.config, f.defaultSettings, MetadataEnum(values), KeyNull)

\* pipe(model, ...models): model.pipe(model, ...models)
RootFactoryPipe(f, model, models) == pipe(model, <<model>> \o models)

RootFactoryCustom(f, fun) ==
  Model(f.config, f.defaultSettings, MetadataCustom(fun), KeyNull)

\* of(undefined): a value of no supported type gives a NoneModel that carries
\* the configuration error.
RootFactoryNone(f) ==
  Model(f.config, f.defaultSettings,
        addConfigError(MetadataNone, errorDetailsConfigureError(KeyNull, "of(value)")),
        KeyNull)

\* obj({k1: m1, ...}) for props = <<[key |-> k1, model |-> m1], ...>>
RootFactoryObj(f, props) ==
  Model(f.config, f.defaultSettings,
        MetadataObj([i \in 1..Len(props) |->
                       modelOf(KeyName(props[i].key), props[i].model)]),
        KeyNull)

RootFactoryArr(f, values) ==
  LET union == IF Len(values) = 1 /\ values[1].meta.type = "union"
               THEN SHALLOW_COPY(values[1], KeyIdx(0))
               ELSE Model(f.config, f.defaultSettings,
                          MetadataUnion([i \in 1..Len(values) |->
                                           modelOf(KeyIdx(i - 1), values[i])]),
                          KeyIdx(0))
  IN Model(f.config, f.defaultSettings, MetadataArr(union), KeyNull)

RootFactoryTuple(f, values) ==
  Model(f.config, f.defaultSettings,
        MetadataTuple([i \in 1..Len(values) |-> modelOf(KeyIdx(i - 1), values[i])]),
        KeyNull)

RootFactoryUnion(f, values) ==
  IF Len(values) = 1 /\ values[1].meta.type = "union"
  THEN SHALLOW_COPY(values[1], KeyNull)
  ELSE Model(f.config, f.defaultSettings,
             MetadataUnion([i \in 1..Len(values) |-> modelOf(KeyIdx(i - 1), values[i])]),
             KeyNull)

-----------------------------------------------------------------------------
(* The custom validators of the explored schemas (TCustomValidate): what   *)
(* the function returns for (path, value), or that it throws.  `error` and *)
(* `warning` hold at most one detail; `errors` and `warnings` are          *)
(* details.errors and details.warnings.                                    *)

CustomResult(ok, value, error, warning, errors, warnings) ==
  [throws |-> FALSE, ok |-> ok, value |-> value, error |-> error,
   warning |-> warning, errors |-> errors, warnings |-> warnings]

CustomDetail(message) == Detail("FaultyValueError", "", "", "", message)

CustomFns == {"okX", "failError", "okWarning", "throw"}

CustomCall(fn, path, value) ==
  CASE fn = "okX" -> CustomResult(TRUE, Str("X"), <<>>, <<>>, <<>>, <<>>)
    [] fn = "failError" ->
         CustomResult(FALSE, Null, <<CustomDetail("custom error")>>, <<>>, <<>>, <<>>)
    [] fn = "okWarning" ->
         CustomResult(TRUE, value, <<>>, <<CustomDetail("custom warning")>>, <<>>, <<>>)
    [] fn = "inc" ->
         IF isNumber(value)
         THEN CustomResult(TRUE, Num(value.n + 1), <<>>, <<>>, <<>>, <<>>)
         ELSE CustomResult(FALSE, Null, <<CustomDetail("not a number")>>, <<>>, <<>>, <<>>)
    [] OTHER -> [CustomResult(FALSE, Null, <<>>, <<>>, <<>>, <<>>) EXCEPT !.throws = TRUE]

-----------------------------------------------------------------------------
(* The validators (src/src/models.ts, lines 476-908).  A validator that    *)
(* calls another one hands the outcome `r` of that call to an operator     *)
(* that models what follows the call.                                      *)

RECURSIVE AddDetails(_, _, _, _)
\* add() of _registerErrorDetails: ctx[method](insureErrorLike(raw)) for each.
AddDetails(ctx, method, array, i) ==
  IF i > Len(array) THEN ctx
  ELSE AddDetails(IF method = "addWarning"
                  THEN addWarning(ctx, insureErrorLike(array[i]))
                  ELSE addError(ctx, insureErrorLike(array[i])),
                  method, array, i + 1)

\* The list with the propertyPath of its last detail set, when it is empty.
SetLastPath(list, path) ==
  IF list[Len(list)].propertyPath = ""
  THEN [list EXCEPT ![Len(list)].propertyPath = path]
  ELSE list

\* The assignment to lastError.propertyPath: `before` and `after` are the
\* Context around the registration of the last error; the detail assigned to
\* is the object that was registered, so the list that received it shows
\* the path.
SetLastErrorPath(before, after, path) ==
  IF after.errorDetails # before.errorDetails
  THEN [after EXCEPT !.errorDetails = SetLastPath(@, path)]
  ELSE IF after.warnDetails # before.warnDetails
  THEN [after EXCEPT !.warnDetails = SetLastPath(@, path)]
  ELSE after

\* The errors of _registerErrorDetails(), `ctx` being the Context after the
\* warnings and all errors but the last.
RegisterLastError(ctx, last, path) == SetLastErrorPath(ctx, addError(ctx, last), path)

\* _registerErrorDetails(): the Context it leaves.
registerErrorDetails(ctx, all, warnings) ==
  IF all = <<>> THEN AddDetails(ctx, "addWarning", warnings, 1)
  ELSE RegisterLastError(
         AddDetails(AddDetails(ctx, "addWarning", warnings, 1), "addError",
                    SubSeq(all, 1, Len(all) - 1), 1),
         insureErrorLike(all[Len(all)]), getPathAsStr(ctx))

\* lastError of CustomModel._validate(), NoDetail for null.
LastError(all, path) ==
  IF all = <<>> THEN NoDetail
  ELSE IF all[Len(all)].propertyPath = ""
  THEN [insureErrorLike(all[Len(all)]) EXCEPT !.propertyPath = path]
  ELSE insureErrorLike(all[Len(all)])

\* CustomModel._validate() once the function returned `result`.
CustomModelResult(ctx, value, result) ==
  IF result.throws THEN WithArg(Throw(ctx, "raw", NoDetail), value)
  ELSE IF result.errors \o result.error = <<>> /\ result.ok
  THEN [Ret(registerErrorDetails(ctx, <<>>, result.warnings \o result.warning),
            TRUE, result.value)
          EXCEPT !.arg = value, !.same = (result.value = value)]
  ELSE WithArg(throwCustomError(
                 registerErrorDetails(ctx, result.errors \o result.error,
                                      result.warnings \o result.warning),
                 LastError(result.errors \o result.error, getPathAsStr(ctx))),
               value)

CustomModel_validate(m, ctx, value) ==
  CustomModelResult(ctx, value, CustomCall(m.meta.fn, getPath(ctx), value))

NoneModel_validate(m, ctx, value) == WithArg(throwNotConfiguredError(ctx, value), value)

RawModel_validate(m, ctx, value) == Pass(ctx, value)

NumModel_validate(m, ctx, value) ==
  IF ~isNumber(value)
  THEN WithArg(throwFaultyValueError(ctx, value, "type number"), value)
  ELSE IF checkMinMax(m, value.n) = 1
  THEN WithArg(throwFaultyValueError(ctx, value, "range min"), value)
  ELSE IF checkMinMax(m, value.n) = 2
  THEN WithArg(throwFaultyValueError(ctx, value, "range max"), value)
  ELSE Pass(ctx, value)

LiteralModel_validate(m, ctx, value) ==
  IF m.meta.values[1] = value THEN Pass(ctx, value)
  ELSE WithArg(throwFaultyValueError(ctx, value, ""), value)

EnumModel_validate(m, ctx, value) ==
  IF \E i \in 1..Len(m.meta.values) : m.meta.values[i] = value THEN Pass(ctx, value)
  ELSE WithArg(throwFaultyValueError(ctx, value, ""), value)

RECURSIVE VALIDATE(_, _, _), validateOf(_, _, _),
          PipeModelLoop(_, _, _, _, _, _), ObjModelLoop(_, _, _, _, _),
          StrictItemsLoop(_, _, _, _, _), IgnoreItemsRewriteLoop(_, _, _, _),
          IgnoreItemsCopyLoop(_, _, _, _, _), TupleModelLoop(_, _, _, _, _),
          UnionModelLoop(_, _, _, _)

\* The history of the models entered, with the model `m` added.
Visit(ctx, m) ==
  [ctx EXCEPT !.visited = Append(@, [depth |-> Len(ctx.modelTracker) + 1,
                                     key |-> m.key, type |-> m.meta.type])]

\* A faulty Model[VALIDATE]() without the finally: exitModel() is not called
\* when _validate() throws.
VALIDATEWithoutFinally(m, ctx, value) ==
  LET r == validateOf(m, enterModel(Visit(ctx, m), m.config, m.settings), value)
  IN IF r.thrown THEN r
     ELSE [r EXCEPT !.ctx = ReleaseModel(@, NextNode(ctx), m.settings)]

\* Model[VALIDATE](): enterModel, _validate, and exitModel in the finally.
VALIDATE(m, ctx, value) ==
  [validateOf(m, enterModel(Visit(ctx, m), m.config, m.settings), value)
     EXCEPT !.ctx = ReleaseModel(@, NextNode(ctx), m.settings)]

\* The outcome r when the finally releases the key and the argument is
\* left as `arg`.
Released(r, release, arg) == [r EXCEPT !.ctx = ReleaseKey(@, release), !.arg = arg]

\* A faulty step of PipeModel._validate() that gives every stage the argument
\* of the pipe.
PipeModelStepSameInput(m, arg, same, i, r) ==
  IF r.thrown THEN WithArg(r, IF same THEN r.arg ELSE arg)
  ELSE IF r.ok
  THEN IF i = Len(m.meta.models)
       THEN PipeModelLoop(m, r.ctx, r.value, IF same THEN r.arg ELSE arg, same /\ r.same,
                          i + 1)
       ELSE PipeModelLoop(m, r.ctx, r.arg, IF same THEN r.arg ELSE arg, same, i + 1)
  ELSE WithArg(throwFaultyValueError(r.ctx, r.arg, "pipe(model)"),
               IF same THEN r.arg ELSE arg)

\* PipeModel._validate() after stage i returned r: `arg` is the argument of
\* the pipe and `same` tells that the stage received that very object.
PipeModelStep(m, arg, same, i, r) ==
  IF r.thrown THEN WithArg(r, IF same THEN r.arg ELSE arg)
  ELSE IF r.ok
  THEN PipeModelLoop(m, r.ctx, r.value, IF same THEN r.arg ELSE arg, same /\ r.same,
                     i + 1)
  ELSE WithArg(throwFaultyValueError(r.ctx, r.arg, "pipe(model)"),
               IF same THEN r.arg ELSE arg)

PipeModelLoop(m, ctx, value, arg, same, i) ==
  IF i > Len(m.meta.models)
  THEN [Ret(ctx, TRUE, value) EXCEPT !.arg = arg, !.same = same]
  ELSE PipeModelStep(m, arg, same, i, VALIDATE(m.meta.models[i], ctx, value))

PipeModel_validate(m, ctx, value) == PipeModelLoop(m, ctx, value, value, TRUE, 1)

\* ObjModel._validate() after the model of property `key` returned r.
ObjModelStep(m, value, target, i, key, release, r) ==
  IF r.thrown THEN Released(r, release, SetProp(value, key, r.arg))
  ELSE IF ~r.ok
  THEN Released(throwFaultyValueError(r.ctx, r.arg, "object property"), release,
                SetProp(value, key, r.arg))
  ELSE IF modeCopyObj(m.config)
  THEN ObjModelLoop(m, ReleaseKey(r.ctx, release), SetProp(value, key, r.arg),
                    SetProp(target, key, r.value), i + 1)
  ELSE ObjModelLoop(m, ReleaseKey(r.ctx, release), SetProp(value, key, r.value),
                    target, i + 1)

\* ObjModel._validate() for a property that the value does not have.
ObjModelAbsent(m, ctx, value, target, i, settings, key) ==
  IF settings.optional
  THEN IF ~hasDefaultValue(settings) THEN ObjModelLoop(m, ctx, value, target, i + 1)
       ELSE IF modeCopyObj(m.config)
       THEN ObjModelLoop(m, ctx, value, SetProp(target, key, getDefaultValue(settings)),
                         i + 1)
       ELSE ObjModelLoop(m, ctx, SetProp(value, key, getDefaultValue(settings)), target,
                         i + 1)
  ELSE Released(throwRequiredPropertyError(pushKey(ctx, KeyName(key)), key),
                NextNode(ctx), value)

\* The loop of ObjModel._validate() from the i-th property model on: `value`
\* is the argument as the loop left it so far, `target` the new object of
\* the copy mode (in the rewrite mode the target is `value` itself).
ObjModelLoop(m, ctx, value, target, i) ==
  IF i > Len(m.meta.models)
  THEN IF modeCopyObj(m.config)
       THEN WithArg(Ret(ctx, TRUE, target), value)
       ELSE Pass(ctx, value)
  ELSE IF hasOwn(value, m.meta.models[i].key.s)
  THEN ObjModelStep(m, value, target, i, m.meta.models[i].key.s, NextNode(ctx),
                    VALIDATE(m.meta.models[i], pushKey(ctx, m.meta.models[i].key),
                             GetProp(value, m.meta.models[i].key.s)))
  ELSE ObjModelAbsent(m, ctx, value, target, i, m.meta.models[i].settings,
                      m.meta.models[i].key.s)

ObjModel_validate(m, ctx, value) ==
  IF ~isPlainObject(value)
  THEN WithArg(throwFaultyValueError(ctx, value, "Plain Object"), value)
  ELSE ObjModelLoop(m, ctx, value, Obj(<<>>), 1)

\* _validateStrictItemsModeRewrite/Copy after the matcher returned r for
\* item i.
StrictItemsStep(m, values, newValues, i, release, r) ==
  IF r.thrown THEN Released(r, release, Arr([values EXCEPT ![i] = r.arg]))
  ELSE IF ~r.ok
  THEN Released(throwFaultyValueError(r.ctx, r.arg, "array item"), release,
                Arr([values EXCEPT ![i] = r.arg]))
  ELSE IF modeCopyArr(m.config)
  THEN StrictItemsLoop(m, ReleaseKey(r.ctx, release), [values EXCEPT ![i] = r.arg],
                       Append(newValues, r.value), i + 1)
  ELSE StrictItemsLoop(m, ReleaseKey(r.ctx, release), [values EXCEPT ![i] = r.value],
                       newValues, i + 1)

\* The loops of _validateStrictItemsModeRewrite/Copy from item i on:
\* `values` is the argument array as the loop left it so far, `newValues`
\* the new array of the copy mode.
StrictItemsLoop(m, ctx, values, newValues, i) ==
  IF i > Len(values)
  THEN IF modeCopyArr(m.config)
       THEN WithArg(Ret(ctx, TRUE, Arr(newValues)), Arr(values))
       ELSE Pass(ctx, Arr(values))
  ELSE StrictItemsStep(m, values, newValues, i, NextNode(ctx),
                       VALIDATE(m.meta.models[1], pushKey(ctx, KeyIdx(i - 1)), values[i]))

\* values.splice(i, 1)
Splice(values, i) == SubSeq(values, 1, i - 1) \o SubSeq(values, i + 1, Len(values))

\* _validateIgnoreItemsModeRewrite after the matcher returned r for item i.
IgnoreItemsRewriteStep(m, values, i, release, r) ==
  IF r.thrown THEN Released(r, release, Arr([values EXCEPT ![i] = r.arg]))
  ELSE IF r.ok
  THEN IgnoreItemsRewriteLoop(m, ReleaseKey(r.ctx, release),
                              [values EXCEPT ![i] = r.value], i - 1)
  ELSE IgnoreItemsRewriteLoop(m, ReleaseKey(arrayFaultyValueError(r.ctx, r.arg), release),
                              Splice(values, i), i - 1)

\* The loop of _validateIgnoreItemsModeRewrite, from the last item down.
IgnoreItemsRewriteLoop(m, ctx, values, i) ==
  IF i < 1 THEN Pass(ctx, Arr(values))
  ELSE IgnoreItemsRewriteStep(m, values, i, NextNode(ctx),
                              VALIDATE(m.meta.models[1], pushKey(ctx, KeyIdx(i - 1)),
                                       values[i]))

\* A faulty _validateIgnoreItemsModeCopy that keeps what the matcher returned
\* for a rejected item.
IgnoreItemsCopyStepKeeping(m, values, newValues, i, release, r) ==
  IF r.thrown THEN Released(r, release, Arr([values EXCEPT ![i] = r.arg]))
  ELSE IgnoreItemsCopyLoop(m, ReleaseKey(r.ctx, release), [values EXCEPT ![i] = r.arg],
                           Append(newValues, r.value), i + 1)

\* _validateIgnoreItemsModeCopy after the matcher returned r for item i.
IgnoreItemsCopyStep(m, values, newValues, i, release, r) ==
  IF r.thrown THEN Released(r, release, Arr([values EXCEPT ![i] = r.arg]))
  ELSE IgnoreItemsCopyLoop(m, ReleaseKey(r.ctx, release), [values EXCEPT ![i] = r.arg],
                           IF r.ok THEN Append(newValues, r.value) ELSE newValues,
                           i + 1)

\* A faulty loop of _validateIgnoreItemsModeCopy that leaves in the array it
\* was given only the items it accepted.
IgnoreItemsCopyLoopInPlace(m, ctx, values, newValues, i) ==
  IF i > Len(values) THEN WithArg(Ret(ctx, TRUE, Arr(newValues)), Arr(newValues))
  ELSE IgnoreItemsCopyStep(m, values, newValues, i, NextNode(ctx),
                           VALIDATE(m.meta.models[1], pushKey(ctx, KeyIdx(i - 1)),
                                    values[i]))

\* The loop of _validateIgnoreItemsModeCopy.
IgnoreItemsCopyLoop(m, ctx, values, newValues, i) ==
  IF i > Len(values) THEN WithArg(Ret(ctx, TRUE, Arr(newValues)), Arr(values))
  ELSE IgnoreItemsCopyStep(m, values, newValues, i, NextNode(ctx),
                           VALIDATE(m.meta.models[1], pushKey(ctx, KeyIdx(i - 1)),
                                    values[i]))

\* _validateIgnoreItemsModeCopy/Rewrite after the loop returned r: the
\* warning-only scope is released, then the range of what remains is checked.
IgnoreItemsPost(m, r, resultPost) ==
  IF r.thrown THEN r
  ELSE IF resultPost = 1
  THEN WithArg(throwFaultyValueError(r.ctx, r.value, "array length min"), r.arg)
  ELSE IF resultPost = 2
  THEN WithArg(throwFaultyValueError(r.ctx, r.value, "array length max"), r.arg)
  ELSE r

IgnoreItemsRelease(m, release, r) ==
  IgnoreItemsPost(m, [r EXCEPT !.ctx = ReleaseOnlyWarning(@, release)],
                  IF r.thrown THEN 0 ELSE checkMinMax(m, Len(r.value.a)))

ArrModel_validateIgnoreItemsModeCopy(m, ctx, values) ==
  IgnoreItemsRelease(m, NextNode(ctx),
                     IgnoreItemsCopyLoop(m, enterOnlyWarning(ctx), values, <<>>, 1))

ArrModel_validateIgnoreItemsModeRewrite(m, ctx, values) ==
  IgnoreItemsRelease(m, NextNode(ctx),
                     IgnoreItemsRewriteLoop(m, enterOnlyWarning(ctx), values, Len(values)))

\* Metadata.arr(null) is not produced by the factory: the item matcher is
\* always a union.
ArrModel_validate(m, ctx, value) ==
  IF ~isArray(value)
  THEN WithArg(throwFaultyValueError(ctx, value, "Array"), value)
  ELSE IF checkMinMax(m, Len(value.a)) = 1
  THEN WithArg(throwFaultyValueError(ctx, value, "array length min"), value)
  ELSE IF checkMinMax(m, Len(value.a)) = 2
  THEN WithArg(throwFaultyValueError(ctx, value, "array length max"), value)
  ELSE IF m.meta.models = <<>> THEN Pass(ctx, value)
  ELSE IF m.settings.removeFaulty
  THEN IF modeCopyArr(m.config)
       THEN ArrModel_validateIgnoreItemsModeCopy(m, ctx, value.a)
       ELSE ArrModel_validateIgnoreItemsModeRewrite(m, ctx, value.a)
  ELSE StrictItemsLoop(m, ctx, value.a, <<>>, 1)

\* TupleModel._validateItemsModeRewrite/Copy after model i returned r.
TupleModelStep(m, values, newValues, i, release, r) ==
  IF r.thrown THEN Released(r, release, Arr([values EXCEPT ![i] = r.arg]))
  ELSE IF ~r.ok
  THEN Released(throwFaultyValueError(r.ctx, r.arg, "tuple item"), release,
                Arr([values EXCEPT ![i] = r.arg]))
  ELSE IF modeCopyArr(m.config)
  THEN TupleModelLoop(m, ReleaseKey(r.ctx, release), [values EXCEPT ![i] = r.arg],
                      Append(newValues, r.value), i + 1)
  ELSE TupleModelLoop(m, ReleaseKey(r.ctx, release), [values EXCEPT ![i] = r.value],
                      newValues, i + 1)

\* The loops of TupleModel._validateItemsModeRewrite/Copy.
TupleModelLoop(m, ctx, values, newValues, i) ==
  IF i > Len(m.meta.models)
  THEN IF modeCopyArr(m.config)
       THEN WithArg(Ret(ctx, TRUE, Arr(newValues)), Arr(values))
       ELSE Pass(ctx, Arr(values))
  ELSE TupleModelStep(m, values, newValues, i, NextNode(ctx),
                      VALIDATE(m.meta.models[i], pushKey(ctx, KeyIdx(i - 1)), values[i]))

\* A faulty TupleModel._validate() that rejects only the arrays that are too
\* short.
TupleModel_validateAtLeast(m, ctx, value) ==
  IF ~isArray(value)
  THEN WithArg(throwFaultyValueError(ctx, value, "Array(tuple)"), value)
  ELSE IF Len(m.meta.models) > Len(value.a)
  THEN WithArg(throwFaultyValueError(ctx, value, "tuple.length"), value)
  ELSE TupleModelLoop(m, ctx, value.a, <<>>, 1)

TupleModel_validate(m, ctx, value) ==
  IF ~isArray(value)
  THEN WithArg(throwFaultyValueError(ctx, value, "Array(tuple)"), value)
  ELSE IF Len(m.meta.models) # Len(value.a)
  THEN WithArg(throwFaultyValueError(ctx, value, "tuple.length"), value)
  ELSE TupleModelLoop(m, ctx, value.a, <<>>, 1)

\* A faulty loop of UnionModel._validate() that goes on after a success.
UnionModelStepOverSuccess(m, i, r) ==
  IF r.thrown \/ i = Len(m.meta.models) THEN r
  ELSE UnionModelLoop(m, r.ctx, r.arg, i + 1)

\* UnionModel._validate() after alternative i returned r.
UnionModelStep(m, i, r) ==
  IF r.thrown \/ r.ok THEN r ELSE UnionModelLoop(m, r.ctx, r.arg, i + 1)

\* The loop of UnionModel._validate() from alternative i on; ok = FALSE
\* when the alternatives are exhausted.
UnionModelLoop(m, ctx, value, i) ==
  IF i > Len(m.meta.models) THEN WithArg(Ret(ctx, FALSE, Null), value)
  ELSE UnionModelStep(m, i, VALIDATE(m.meta.models[i], ctx, value))

\* UnionModel._validate() after the loop returned r and the finally
\* released the type-matching scope.
UnionModelPost(r) ==
  IF r.thrown \/ r.ok THEN r
  ELSE WithArg(throwFaultyValueError(r.ctx, r.arg, "no compatible type"), r.arg)

UnionModelRelease(release, r) ==
  UnionModelPost([r EXCEPT !.ctx = ReleaseTypeMatching(@, release)])

UnionModel_validate(m, ctx, value) ==
  UnionModelRelease(NextNode(ctx), UnionModelLoop(m, enterTypeMatching(ctx), value, 1))

\* The _validate() of the model's class.
validateOf(m, ctx, value) ==
  CASE m.meta.type = "num" -> NumModel_validate(m, ctx, value)
    [] m.meta.type = "literal" -> LiteralModel_validate(m, ctx, value)
    [] m.meta.type = "enum" -> EnumModel_validate(m, ctx, value)
    [] m.meta.type = "custom" -> CustomModel_validate(m, ctx, value)
    [] m.meta.type = "raw" -> RawModel_validate(m, ctx, value)
    [] m.meta.type = "obj" -> ObjModel_validate(m, ctx, value)
    [] m.meta.type = "arr" -> ArrModel_validate(m, ctx, value)
    [] m.meta.type = "tuple" -> TupleModel_validate(m, ctx, value)
    [] m.meta.type = "union" -> UnionModel_validate(m, ctx, value)
    [] m.meta.type = "pipe" -> PipeModel_validate(m, ctx, value)
    [] OTHER -> NoneModel_validate(m, ctx, value)

-----------------------------------------------------------------------------
(* Model.validate() (src/src/models.ts, lines 214-244) and                 *)
(* Context.returnResult() (src/src/context.ts, lines 206-256).             *)

\* What validate() gives its caller: a TResult, or the exception it throws.
\* errors and warnings are details.errors and details.warnings, <<>> when
\* the key is absent; `arg` is the argument as the call left it.  History
\* fields: `visited` lists the models that the call entered, `raw` tells
\* that a custom function threw, `scoped` that the exception which ended the
\* call was thrown inside a scope.
TResult(ok, value, errors, warnings, arg) ==
  [thrown |-> FALSE, cls |-> "", detail |-> NoDetail, ok |-> ok, value |-> value,
   errors |-> errors, warnings |-> warnings, arg |-> arg, visited |-> <<>>,
   raw |-> FALSE, scoped |-> FALSE]

Thrown(cls, detail, arg) ==
  [thrown |-> TRUE, cls |-> cls, detail |-> detail, ok |-> FALSE, value |-> Null,
   errors |-> <<>>, warnings |-> <<>>, arg |-> arg, visited |-> <<>>,
   raw |-> FALSE, scoped |-> FALSE]

\* A faulty _validateHandleError() that returns what was collected as it is.
validateHandleErrorAsCollected(ctx, cls, detail, arg) ==
  IF isThrowEnabled(ctx)
  THEN IF cls \in ErrorCodes THEN Thrown(cls, detail, arg)
       ELSE Thrown("UnknownError", errorDetailsUnknownError(getPathAsStr(ctx), ""), arg)
  ELSE TResult(FALSE, Null, ctx.errorDetails, ctx.warnDetails, arg)

\* A faulty _validateHandleError() that gives in to the stop-on-error of the
\* root model: the default and a warning instead of the failure.
validateHandleErrorStopping(ctx, cls, detail, arg) ==
  IF isThrowEnabled(ctx)
  THEN IF cls \in ErrorCodes THEN Thrown(cls, detail, arg)
       ELSE Thrown("UnknownError", errorDetailsUnknownError(getPathAsStr(ctx), ""), arg)
  ELSE IF ctx.settings.stopIfError
  THEN TResult(TRUE, getDefaultValue(ctx.settings), <<>>,
               ctx.warnDetails \o <<errorDetailsUnknownError(getPathAsStr(ctx), "")>>, arg)
  ELSE TResult(FALSE, Null,
               IF ctx.errorDetails = <<>>
               THEN <<errorDetailsUnknownError(getPathAsStr(ctx), "")>>
               ELSE ctx.errorDetails,
               ctx.warnDetails, arg)

\* A faulty _validateHandleError() that rethrows whatever it caught.
validateHandleErrorRethrowing(ctx, cls, detail, arg) ==
  IF isThrowEnabled(ctx) THEN Thrown(cls, detail, arg)
  ELSE TResult(FALSE, Null,
               IF ctx.errorDetails = <<>>
               THEN <<errorDetailsUnknownError(getPathAsStr(ctx), "")>>
               ELSE ctx.errorDetails,
               ctx.warnDetails, arg)

validateHandleError(ctx, cls, detail, arg) ==
  IF isThrowEnabled(ctx)
  THEN IF cls \in ErrorCodes THEN Thrown(cls, detail, arg)
       ELSE Thrown("UnknownError", errorDetailsUnknownError(getPathAsStr(ctx), ""), arg)
  ELSE TResult(FALSE, Null,
               IF ctx.errorDetails = <<>>
               THEN <<errorDetailsUnknownError(getPathAsStr(ctx), "")>>
               ELSE ctx.errorDetails,
               ctx.warnDetails, arg)

\* returnResult() with _unclearResult(); the TypeError of unshift() on the
\* missing details.errors is caught by validate().
returnResult(ctx, r) ==
  IF r.ok /\ ctx.errorDetails # <<>>
  THEN TResult(TRUE, r.value, <<>>,
               <<errorDetailsUnknownError("", "unexpected details.errors")>>
               \o ctx.errorDetails \o ctx.warnDetails, r.arg)
  ELSE IF ~r.ok /\ ctx.errorDetails = <<>>
  THEN IF ctx.warnDetails = <<>>
       THEN TResult(FALSE, r.value,
                    <<errorDetailsUnknownError("", "missing details.errors")>>,
                    <<>>, r.arg)
       ELSE validateHandleError(ctx, "TypeError", NoDetail, r.arg)
  ELSE TResult(r.ok, r.value, ctx.errorDetails, ctx.warnDetails, r.arg)

\* validate() after this[VALIDATE]() returned or threw r.
ValidateResult(r) ==
  [(IF r.thrown THEN validateHandleError(r.ctx, r.cls, r.detail, r.arg)
    ELSE returnResult(r.ctx, r))
     EXCEPT !.visited = r.ctx.visited,
            !.raw = r.thrown /\ r.cls = "raw",
            !.scoped = r.thrown /\ r.scoped]

validate(m, value) ==
  ValidateResult(VALIDATE(m, pushKey(NewContext(m.config, m.settings), m.key), value))

-----------------------------------------------------------------------------
(* The inputs of validate(): for each model a few values that its          *)
(* validator accepts and rejects.                                          *)

RECURSIVE Uniq(_, _)
\* The sequence without the repetitions of its items.
Uniq(seq, i) ==
  IF i > Len(seq) THEN <<>>
  ELSE IF \E j \in 1..(i - 1) : seq[j] = seq[i] THEN Uniq(seq, i + 1)
  ELSE <<seq[i]>> \o Uniq(seq, i + 1)

Head3(seq) == SubSeq(seq, 1, IF Len(seq) < 3 THEN Len(seq) ELSE 3)

RECURSIVE Samples(_), SamplesOfAll(_, _)
\* Values for a model, as a sequence: an accepted one first.
Samples(m) ==
  CASE m.meta.type = "num" -> <<Num(1), Str("bad"), Num(2)>>
    [] m.meta.type \in {"literal", "enum"} -> <<Num(1), Num(OtherNum), Num(2)>>
    [] m.meta.type = "obj" ->
         LET b == Samples(m.meta.models[2])
         IN [i \in 1..Len(b) |-> Obj(<<Prop("a", Num(1)), Prop("b", b[i])>>)]
            \o <<Obj(<<Prop("a", Num(1))>>),
                 Obj(<<Prop("a", Str("bad")), Prop("b", b[1])>>), Num(1)>>
    [] m.meta.type = "arr" ->
         LET it == Head3(Samples(m.meta.models[1]))
         IN <<Arr(it), Arr(<<it[1]>>), Arr(<<it[Len(it)]>>), Arr(<<>>), Num(1)>>
    [] m.meta.type = "tuple" ->
         LET b == Samples(m.meta.models[2])
         IN [i \in 1..Len(b) |-> Arr(<<Num(1), b[i]>>)]
            \o <<Arr(<<Num(1)>>), Arr(<<Str("bad"), b[1]>>), Arr(<<Num(1), b[1], Num(1)>>)>>
    [] m.meta.type = "union" -> Uniq(SamplesOfAll(m.meta.models, 1), 1)
    [] m.meta.type = "pipe" -> Samples(m.meta.models[1])
    [] OTHER -> <<Num(1), Null>>

SamplesOfAll(models, i) ==
  IF i > Len(models) THEN <<>>
  ELSE Samples(models[i]) \o SamplesOfAll(models, i + 1)

ToSet(seq) == {seq[i] : i \in 1..Len(seq)}

\* An array model whose items are matched by models without children.
IsFlatArr(m) ==
  /\ m.meta.type = "arr"
  /\ \A i \in 1..Len(m.meta.models[1].meta.models) :
       m.meta.models[1].meta.models[i].meta.models = <<>>

\* The arguments given to root.validate(): for an array of flat items every
\* array of at most MaxLen of the first samples of its items.
Inputs(m) ==
  IF IsFlatArr(m)
  THEN LET it == ToSet(Head3(Samples(m.meta.models[1])))
       IN {Arr(a) : a \in UNION {[1..n -> it] : n \in 0..MaxLen}} \cup {Num(1)}
  ELSE ToSet(Samples(m))

-----------------------------------------------------------------------------
(* The state machine: a session that creates a model with the factory,     *)
(* modifies and nests it, and validates values with it.                    *)

\* The options of the explored root factories.
FactoryOptions == {[throwIfError |-> t, createMode |-> c] : t \in BOOLEAN, c \in {0, 3}}

\* The scopes of test 'scope' (src/src/index.test.ts, lines 109-170).
ScopeOptions ==
  {[name |-> "nullable", stopIfError |-> TRUE, removeFaulty |-> FALSE],
   [name |-> "removable", stopIfError |-> FALSE, removeFaulty |-> TRUE],
   [name |-> "combined", stopIfError |-> TRUE, removeFaulty |-> TRUE]}

Scopes(f) == {scope(f, o.name, o) : o \in ScopeOptions}

\* The arguments of range() in the session.
Ranges == {<<2, MaxLen + 1>>, <<1, MaxLen - 1>>}

NoOutput == TResult(TRUE, emptyValue, <<>>, <<>>, emptyValue)

\* No call on `tracker` yet.
NoCall == [op |-> "none", node |-> 0, was |-> <<>>]

\* No object yet.
NoHeap == [nodes |-> <<>>, settings |-> <<>>, metas |-> <<>>, objects |-> <<>>]

\* The validate() calls that run at the same time.
Calls == {1, 2}

\* A call that has not started: `ctx` is the Context object of the call (0:
\* none yet), `script` the calls it made on it, `overlapped` tells that it
\* made one while the other call was in progress.
NotStarted ==
  [ctx |-> 0, script |-> <<>>, done |-> FALSE, result |-> NoOutput, overlapped |-> FALSE]

\* No Context object and no call yet.
NoRun == [contexts |-> <<>>, calls |-> [c \in Calls |-> NotStarted]]

\* No call of getConfigureError() on `root` yet: `of` is the model it was
\* called on and `errors` what it returned, <<>> for null.
NotCollected == [called |-> FALSE, of |-> emptyValue, errors |-> <<>>]

\* No call on a Model of `heap` yet.
NoOp == [op |-> "none", node |-> 0, arg |-> 0, ret |-> 0, thrown |-> "", was |-> NoHeap]

Init ==
  /\ factory \in {RootFactory(DefaultConfig(o.throwIfError, o.createMode)) :
                    o \in FactoryOptions}
  /\ root = Model(factory.config, factory.defaultSettings, MetadataRaw, KeyNull)
  /\ stage = "new"
  /\ input = emptyValue
  /\ output = NoOutput
  /\ tracker = <<>>
  /\ created = 0
  /\ pushedOn = <<>>
  /\ lastCall = NoCall
  /\ context = NewContext(factory.config, factory.defaultSettings)
  /\ lastAdd = [op |-> "new", detail |-> NoDetail, was |-> context]
  /\ heap = NoHeap
  /\ made = <<>>
  /\ lastOp = NoOp
  /\ running = NoRun
  /\ collected = NotCollected

\* The session goes on with the model `m`.
Becomes(m, st) ==
  /\ root' = m
  /\ stage' = st
  /\ input' = emptyValue
  /\ output' = NoOutput
  /\ collected' = NotCollected
  /\ UNCHANGED factory
  /\ UNCHANGED <<stackVars, contextVars, nodeVars, runVars>>

Deeper == IF stage = "leaf" THEN "wrap1" ELSE "wrap2"

FactoryNum == stage = "new" /\ Becomes(RootFactoryNum(factory), "leaf")

FactoryEnum ==
  stage = "new" /\ Becomes(RootFactoryEnum(factory, <<Num(1), Num(2)>>), "leaf")

FactoryCustom ==
  stage = "new" /\ \E fn \in CustomFns : Becomes(RootFactoryCustom(factory, fn), "leaf")

FactoryOf == stage = "new" /\ Becomes(RootFactoryNone(factory), "leaf")

StopError == stage \in {"leaf", "wrap1"} /\ Becomes(stopError(root), stage)

\* The session gives a default to an enum that stops errors.
Def ==
  /\ stage = "leaf"
  /\ root.meta.type = "enum"
  /\ root.settings.stopIfError
  /\ Becomes(def(root, Str("D")), stage)

RemoveFaulty ==
  /\ stage = "wrap1"
  /\ root.meta.type = "arr"
  /\ Becomes(removeFaulty(root), stage)

\* The session bounds the length of an array that removes faulty items.
Range ==
  /\ stage = "wrap1"
  /\ root.meta.type = "arr"
  /\ root.settings.removeFaulty
  /\ ~root.settings.stopIfError
  /\ root.meta.min = <<>>
  /\ \E r \in Ranges : Becomes(setRange(root, r[1], r[2]), stage)

\* The models that the session nests a second time.
Nestable == stage = "leaf" \/ (stage = "wrap1" /\ root.meta.type \in {"obj", "arr", "union"})

FactoryObj ==
  /\ Nestable
  /\ Becomes(RootFactoryObj(factory, <<[key |-> "a", model |-> RootFactoryNum(factory)],
                                       [key |-> "b", model |-> root]>>), Deeper)

FactoryArr ==
  /\ Nestable
  /\ \E f \in IF stage = "leaf" THEN {factory} \cup Scopes(factory) ELSE {factory} :
       Becomes(RootFactoryArr(f, <<root>>), Deeper)

FactoryTuple ==
  /\ stage = "leaf"
  /\ Becomes(RootFactoryTuple(factory, <<RootFactoryNum(factory), root>>), Deeper)

FactoryUnion ==
  /\ Nestable
  /\ \E values \in {<<root, RootFactoryLiteral(factory, Num(1))>>} \cup
                    IF stage = "leaf"
                    THEN {<<RootFactoryLiteral(factory, Num(1)), root>>}
                    ELSE {} :
       Becomes(RootFactoryUnion(factory, values), Deeper)

Pipe ==
  /\ stage = "leaf"
  /\ \E p \in {pipe(root, <<RootFactoryNum(factory)>>),
               pipe(RootFactoryNum(factory), <<root>>)} :
       Becomes(p, Deeper)

\* root.validate(value); each call has its own Context, so the session
\* keeps the outcome of one call for each model it builds.
Validate ==
  \E value \in Inputs(root) :
    /\ input = emptyValue
    /\ input' = value
    /\ output' = validate(root, value)
    /\ UNCHANGED <<factory, root, stage, collected>>
    /\ UNCHANGED <<stackVars, contextVars, nodeVars, runVars>>

Next ==
  \/ FactoryNum
  \/ FactoryEnum
  \/ FactoryCustom
  \/ FactoryOf
  \/ StopError
  \/ Def
  \/ RemoveFaulty
  \/ Range
  \/ FactoryObj
  \/ FactoryArr
  \/ FactoryTuple
  \/ FactoryUnion
  \/ Pipe
  \/ Validate

Spec == Init /\ [][Next]_vars

-----------------------------------------------------------------------------
(* A SafeStack on its own (src/src/stack.ts): pushes, and calls of the     *)
(* release closures in any order, any number of times, as in test          *)
(* 'PathControl'.  The closure of the k-th push is called as Release(k).   *)

StackInit ==
  /\ Init
  /\ factory = RootFactory(DefaultConfig(FALSE, 0))

\* release = tracker.push(key)
Push ==
  /\ created < MaxPush
  /\ \E key \in {KeyName("user"), KeyIdx(created)} :
       tracker' = SafeStackPush(tracker, created + 1, key)
  /\ created' = created + 1
  /\ pushedOn' = Append(pushedOn, tracker)
  /\ lastCall' = [op |-> "push", node |-> created + 1, was |-> tracker]
  /\ UNCHANGED <<sessionVars, contextVars, nodeVars, runVars>>

\* release(), for the closure that the k-th push returned.
Release(k) ==
  /\ tracker' = SafeStackRelease(tracker, k)
  /\ lastCall' = [op |-> "release", node |-> k, was |-> tracker]
  /\ UNCHANGED <<created, pushedOn>>
  /\ UNCHANGED <<sessionVars, contextVars, nodeVars, runVars>>

ReleaseAny == \E k \in 1..created : Release(k)

StackNext ==
  \/ Push
  \/ ReleaseAny

StackSpec == StackInit /\ [][StackNext]_vars

-----------------------------------------------------------------------------
(* A Context on its own (src/src/context.ts): the scopes are entered and   *)
(* released and details are registered in any order, as the validators of  *)
(* a schema may do.                                                        *)

\* The details that are registered.
Details ==
  {errorDetailsFaultyValueError("<root>", "1", ""),
   errorDetailsRequiredPropertyError("<root>", "a")}

\* The call `op` was made on `context`.
Called(op, detail) == [op |-> op, detail |-> detail, was |-> context]

ContextInit ==
  /\ Init
  /\ factory = RootFactory(DefaultConfig(FALSE, 0))

EnterTypeMatching ==
  /\ context.nodes < MaxEnter
  /\ context' = enterTypeMatching(context)
  /\ lastAdd' = Called("enterTypeMatching", NoDetail)
  /\ UNCHANGED <<sessionVars, stackVars, nodeVars, runVars>>

EnterOnlyWarning ==
  /\ context.nodes < MaxEnter
  /\ context' = enterOnlyWarning(context)
  /\ lastAdd' = Called("enterOnlyWarning", NoDetail)
  /\ UNCHANGED <<sessionVars, stackVars, nodeVars, runVars>>

\* enterModel() for a model that stops errors or does not.
EnterModel ==
  /\ context.nodes + 1 < MaxEnter
  /\ \E m \in {RootFactoryNum(factory), stopError(RootFactoryNum(factory))} :
       context' = enterModel(context, m.config, m.settings)
  /\ lastAdd' = Called("enterModel", NoDetail)
  /\ UNCHANGED <<sessionVars, stackVars, nodeVars, runVars>>

\* A release closure is called: that of a type-matching scope, of a
\* warning-only scope, or of a model.
ReleaseScope ==
  /\ \/ \E i \in 1..Len(context.typeMatchingControl) :
          context' = ReleaseTypeMatching(context, context.typeMatchingControl[i].node)
     \/ \E i \in 1..Len(context.warningControl) :
          context' = ReleaseOnlyWarning(context, context.warningControl[i].node)
     \/ \E i \in 1..Len(context.modelTracker) :
          context' = ReleaseModel(context, context.modelTracker[i].node,
                                  context.modelTracker[i].value.settings)
  /\ lastAdd' = Called("release", NoDetail)
  /\ UNCHANGED <<sessionVars, stackVars, nodeVars, runVars>>

AddError ==
  /\ \E detail \in Details :
       /\ context' = addError(context, detail)
       /\ lastAdd' = Called("addError", detail)
  /\ UNCHANGED <<sessionVars, stackVars, nodeVars, runVars>>

AddWarning ==
  /\ \E detail \in Details :
       /\ context' = addWarning(context, detail)
       /\ lastAdd' = Called("addWarning", detail)
  /\ UNCHANGED <<sessionVars, stackVars, nodeVars, runVars>>

ContextNext ==
  \/ EnterTypeMatching
  \/ EnterOnlyWarning
  \/ EnterModel
  \/ ReleaseScope
  \/ AddError
  \/ AddWarning

ContextSpec == ContextInit /\ [][ContextNext]_vars

-----------------------------------------------------------------------------
(* A configuration on its own (src/src/models.ts, lines 105-474).  A Model *)
(* object holds references to a Config, a Settings and a Metadata object;  *)
(* `heap` keeps the objects, a reference is an index.  A modifier returns  *)
(* `this` or a new Model that shares with `this` the objects it did not    *)
(* replace.  A call leaves [heap, ret, thrown]: the objects after it, the  *)
(* Model it returned (0 when it threw) and the class of what it threw.     *)
(* `objects` are the values given to validate() and returned by it:        *)
(* [value, of, via], where `of` is 0, or s when the object is the very     *)
(* _defaultValue of the Settings s, and `via` is a history field that      *)
(* tells where the object came from.                                       *)

Returned(h, n) == [heap |-> h, ret |-> n, thrown |-> ""]

ThrownBy(h, cls) == [heap |-> h, ret |-> 0, thrown |-> cls]

SettingsAt(h, n) == h.settings[h.nodes[n].settings]

MetadataAt(h, n) == h.metas[h.nodes[n].meta]

\* The Model object n with its Settings and Metadata as they are in h.
ModelAt(h, n) ==
  Model(h.nodes[n].config, SettingsAt(h, n), MetadataAt(h, n), h.nodes[n].key)

\* Metadata.copy(): a new object with the fields of this one.
MetadataCopy(meta) ==
  [Metadata(meta.type) EXCEPT !.errors = plainCopy(meta.errors),
                              !.min = meta.min, !.max = meta.max,
                              !.exclusive = meta.exclusive,
                              !.int = meta.int, !.values = meta.values,
                              !.models = meta.models, !.fn = meta.fn]

\* this._meta.addConfigError(detail)
Model_addConfigError(h, n, detail) ==
  [h EXCEPT !.metas[h.nodes[n].meta] = addConfigError(@, detail)]

\* _copyWith(null, settings, meta): <<>> stands for null, <<object>> for a
\* new object.
Model_copyWith(h, n, newSettings, newMeta) ==
  Returned([nodes |-> Append(h.nodes,
                        [config |-> h.nodes[n].config,
                         settings |-> IF newSettings = <<>> THEN h.nodes[n].settings
                                      ELSE Len(h.settings) + 1,
                         meta |-> IF newMeta = <<>> THEN h.nodes[n].meta
                                  ELSE Len(h.metas) + 1,
                         key |-> h.nodes[n].key]),
            settings |-> h.settings \o newSettings,
            metas |-> h.metas \o newMeta,
            objects |-> h.objects],
           Len(h.nodes) + 1)

\* _throwIfConfigureError(message) and the `return this` that follows it.
Model_throwIfConfigureError(h, n, message) ==
  IF h.nodes[n].config.throwIfConfigureError
  THEN ThrownBy(Model_addConfigError(h, n, errorDetailsConfigureError(h.nodes[n].key,
                                                                      message)),
                "ConfigureError")
  ELSE Returned(Model_addConfigError(h, n, errorDetailsConfigureError(h.nodes[n].key,
                                                                      message)), n)

\* A faulty _throwIfFrozen() that never throws.
Model_throwIfFrozenSilently(h, n) ==
  Returned(Model_addConfigError(h, n, errorDetailsModelIsFrozenError(h.nodes[n].key)), n)

\* _throwIfFrozen() of a frozen Model and the `return this` that follows it.
Model_throwIfFrozen(h, n) ==
  IF h.nodes[n].config.throwIfConfigureError
  THEN ThrownBy(Model_addConfigError(h, n, errorDetailsModelIsFrozenError(h.nodes[n].key)),
                "ModelIsFrozenError")
  ELSE Returned(Model_addConfigError(h, n, errorDetailsModelIsFrozenError(h.nodes[n].key)),
                n)

Model_freeze(h, n) ==
  Model_copyWith(h, n,
                 <<[SettingsCopy(SettingsAt(h, n), SettingsOptions(SettingsAt(h, n)),
                                 emptyValue) EXCEPT !.readonlyFrozen = TRUE]>>,
                 <<>>)

\* copy(): the copy of the Config is equal to the Config.
Model_copy(h, n) ==
  Model_copyWith(h, n,
                 <<SettingsCopy(SettingsAt(h, n), SettingsOptions(SettingsAt(h, n)),
                                emptyValue)>>,
                 <<MetadataCopy(MetadataAt(h, n))>>)

\* A faulty stopError() that copies without looking at what is set.
Model_stopErrorAlways(h, n) ==
  IF isFrozen(ModelAt(h, n)) THEN Model_throwIfFrozen(h, n)
  ELSE Model_copyWith(h, n,
                      <<SettingsCopy(SettingsAt(h, n),
                                     [SettingsOptions(SettingsAt(h, n))
                                        EXCEPT !.stopIfError = TRUE],
                                     emptyValue)>>,
                      <<>>)

Model_stopError(h, n) ==
  IF SettingsAt(h, n).stopIfError THEN Returned(h, n)
  ELSE IF isFrozen(ModelAt(h, n)) THEN Model_throwIfFrozen(h, n)
  ELSE Model_copyWith(h, n,
                      <<SettingsCopy(SettingsAt(h, n),
                                     [SettingsOptions(SettingsAt(h, n))
                                        EXCEPT !.stopIfError = TRUE],
                                     emptyValue)>>,
                      <<>>)

Model_def(h, n, defaultValue) ==
  IF isEqualDefaultValue(SettingsAt(h, n), defaultValue) THEN Returned(h, n)
  ELSE IF isFrozen(ModelAt(h, n)) THEN Model_throwIfFrozen(h, n)
  ELSE Model_copyWith(h, n,
                      <<SettingsCopy(SettingsAt(h, n), SettingsOptions(SettingsAt(h, n)),
                                     defaultValue)>>,
                      <<>>)

\* A faulty _setMin() that sets the bound in the Metadata of `this`, which
\* the Model it returns shares.
Model_setMinInPlace(h, n, min) ==
  IF MetadataAt(h, n).min = <<min>> THEN Returned(h, n)
  ELSE IF isFrozen(ModelAt(h, n)) THEN Model_throwIfFrozen(h, n)
  ELSE IF \/ MetadataAt(h, n).max # <<>> /\ min > MetadataAt(h, n).max[1]
          \/ MetadataAt(h, n).type \in {"str", "arr"} /\ min < 0
  THEN Model_throwIfConfigureError(h, n, "min(min)")
  ELSE Model_copyWith([h EXCEPT !.metas[h.nodes[n].meta].min = <<min>>], n, <<>>, <<>>)

\* _setMin(min) without the `exclusive` argument.
Model_setMin(h, n, min) ==
  IF MetadataAt(h, n).min = <<min>> THEN Returned(h, n)
  ELSE IF isFrozen(ModelAt(h, n)) THEN Model_throwIfFrozen(h, n)
  ELSE IF \/ MetadataAt(h, n).max # <<>> /\ min > MetadataAt(h, n).max[1]
          \/ MetadataAt(h, n).type \in {"str", "arr"} /\ min < 0
  THEN Model_throwIfConfigureError(h, n, "min(min)")
  ELSE Model_copyWith(h, n, <<>>,
                      <<[MetadataCopy(MetadataAt(h, n)) EXCEPT !.min = <<min>>]>>)

\* _setMax(max) without the `exclusive` argument.
\* A faulty _setMax() that does not compare the bound with min.
Model_setMaxUnchecked(h, n, max) ==
  IF MetadataAt(h, n).max = <<max>> THEN Returned(h, n)
  ELSE IF isFrozen(ModelAt(h, n)) THEN Model_throwIfFrozen(h, n)
  ELSE IF MetadataAt(h, n).type \in {"str", "arr"} /\ max < 0
  THEN Model_throwIfConfigureError(h, n, "max(max)")
  ELSE Model_copyWith(h, n, <<>>,
                      <<[MetadataCopy(MetadataAt(h, n)) EXCEPT !.max = <<max>>]>>)

Model_setMax(h, n, max) ==
  IF MetadataAt(h, n).max = <<max>> THEN Returned(h, n)
  ELSE IF isFrozen(ModelAt(h, n)) THEN Model_throwIfFrozen(h, n)
  ELSE IF \/ MetadataAt(h, n).min # <<>> /\ max < MetadataAt(h, n).min[1]
          \/ MetadataAt(h, n).type \in {"str", "arr"} /\ max < 0
  THEN Model_throwIfConfigureError(h, n, "max(max)")
  ELSE Model_copyWith(h, n, <<>>,
                      <<[MetadataCopy(MetadataAt(h, n)) EXCEPT !.max = <<max>>]>>)

\* _setRange(min, max) without the `exclusive` argument.
Model_setRange(h, n, min, max) ==
  IF MetadataAt(h, n).min = <<min>> /\ MetadataAt(h, n).max = <<max>> THEN Returned(h, n)
  ELSE IF isFrozen(ModelAt(h, n)) THEN Model_throwIfFrozen(h, n)
  ELSE IF \/ max < min
          \/ MetadataAt(h, n).type \in {"str", "arr"} /\ (min < 0 \/ max < 0)
  THEN Model_throwIfConfigureError(h, n, "range(min, max)")
  ELSE Model_copyWith(h, n, <<>>,
                      <<[MetadataCopy(MetadataAt(h, n)) EXCEPT !.min = <<min>>,
                                                               !.max = <<max>>]>>)

\* The arguments of min() and max().
Limits == {5, 10}

\* The call op(arg) on the Model n left r.
Op(op, n, arg, r) ==
  /\ Len(r.heap.nodes) <= MaxNodes
  /\ heap' = r.heap
  /\ made' = IF Len(r.heap.nodes) > Len(heap.nodes)
             THEN Append(made, [op |-> op, of |-> n, arg |-> arg])
             ELSE made
  /\ lastOp' = [op |-> op, node |-> n, arg |-> arg, ret |-> r.ret,
                thrown |-> r.thrown, was |-> heap]
  /\ UNCHANGED <<sessionVars, stackVars, contextVars, runVars>>

NodeInit ==
  /\ Init
  /\ factory = RootFactory(DefaultConfig(FALSE, 0))

\* new Factory({throwIfConfigureError}).num(): the Model has the default
\* Settings of the factory and a new Metadata.
NewNum ==
  /\ heap = NoHeap
  /\ \E b \in BOOLEAN :
       Op("num", 0, 0,
          Returned([nodes |-> <<[config |-> [factory.config
                                              EXCEPT !.throwIfConfigureError = b],
                                 settings |-> 1, meta |-> 1, key |-> KeyNull]>>,
                    settings |-> <<factory.defaultSettings>>,
                    metas |-> <<MetadataNum>>,
                    objects |-> <<>>], 1))

FreezeNode == \E n \in 1..Len(heap.nodes) : Op("freeze", n, 0, Model_freeze(heap, n))

CopyNode == \E n \in 1..Len(heap.nodes) : Op("copy", n, 0, Model_copy(heap, n))

StopErrorNode == \E n \in 1..Len(heap.nodes) : Op("stopError", n, 0, Model_stopError(heap, n))

DefNode == \E n \in 1..Len(heap.nodes) : Op("def", n, 1, Model_def(heap, n, Num(1)))

MinNode ==
  \E n \in 1..Len(heap.nodes), k \in Limits : Op("min", n, k, Model_setMin(heap, n, k))

MaxNode ==
  \E n \in 1..Len(heap.nodes), k \in Limits : Op("max", n, k, Model_setMax(heap, n, k))

NodeNext ==
  \/ NewNum
  \/ FreezeNode
  \/ CopyNode
  \/ StopErrorNode
  \/ DefNode
  \/ MinNode
  \/ MaxNode

NodeSpec == NodeInit /\ [][NodeNext]_vars

-----------------------------------------------------------------------------
(* The chains of min(), max() and range() calls on a model of a factory:    *)
(* each call is made on the Model that the call before returned.           *)

RangeInit == NodeInit

\* The Model that the chain of calls has come to: the last one made.
Last == Len(heap.nodes)

ThenMin ==
  /\ heap # NoHeap
  /\ \E k \in Limits : Op("min", Last, k, Model_setMin(heap, Last, k))

ThenMax ==
  /\ heap # NoHeap
  /\ \E k \in Limits : Op("max", Last, k, Model_setMax(heap, Last, k))

ThenRange ==
  /\ heap # NoHeap
  /\ \E lo \in Limits, hi \in Limits :
       Op("range", Last, <<lo, hi>>, Model_setRange(heap, Last, lo, hi))

RangeNext ==
  \/ NewNum
  \/ ThenMin
  \/ ThenMax
  \/ ThenRange

RangeSpec == RangeInit /\ [][RangeNext]_vars

-----------------------------------------------------------------------------
(* validate() and the objects it is given and returns (src/src/models.ts,  *)
(* lines 236-253; src/src/copy.bench.ts, lines 146-148).  An array or an   *)
(* object is rewritten in place when the create mode says so, and what     *)
(* validate() returned may be given to validate() again.                   *)

\* The object k is left as `value`: whoever holds the object holds `value`.
Written(h, k, value) ==
  [h EXCEPT !.objects[k].value = value,
            !.settings = IF h.objects[k].of = 0 THEN @
                         ELSE [@ EXCEPT ![h.objects[k].of].defaultValue = value]]

\* A faulty Settings.getDefaultValue() that returns _defaultValue itself.
Settings_getDefaultValueItself(h, s) ==
  Returned([h EXCEPT !.objects = Append(@, [value |-> getDefaultValue(h.settings[s]),
                                            of |-> s, via |-> "default"])],
           Len(h.objects) + 1)

\* Settings.getDefaultValue(): a new object, the plain copy of _defaultValue.
Settings_getDefaultValue(h, s) ==
  Returned([h EXCEPT !.objects = Append(@, [value |-> getDefaultValue(h.settings[s]),
                                            of |-> 0, via |-> "default"])],
           Len(h.objects) + 1)

\* validate() of the Model n returned or threw r for the object k, and left
\* the heap g: the value of the result is the argument itself, what
\* getDefaultValue() of the Settings of n returned, or a new object.
Model_validateResult(h, n, k, r, g) ==
  IF ValidateResult(r).thrown THEN ThrownBy(g, ValidateResult(r).cls)
  ELSE IF r.same THEN Returned(g, k)
  ELSE IF r.defaultOf = <<SettingsAt(h, n)>>
  THEN Settings_getDefaultValue(g, h.nodes[n].settings)
  ELSE Returned([g EXCEPT !.objects = Append(@, [value |-> ValidateResult(r).value,
                                                 of |-> 0, via |-> "result"])],
                Len(g.objects) + 1)

\* validate() of the Model n for the object k, after [VALIDATE]() returned
\* or threw r.
Model_validateOutcome(h, n, k, r) ==
  Model_validateResult(h, n, k, r, Written(h, k, r.arg))

\* model.validate(value) for the Model n and the object k.
Model_validate(h, n, k) ==
  Model_validateOutcome(h, n, k,
    VALIDATE(ModelAt(h, n),
             pushKey(NewContext(ModelAt(h, n).config, ModelAt(h, n).settings),
                     ModelAt(h, n).key),
             h.objects[k].value))

\* The default of the schemas: an array with an item that no num accepts.
FaultyDefault == Arr(<<Str("bad"), Num(1)>>)

\* The schemas that are validated with.
Schemas(f) ==
  {def(stopError(removeFaulty(RootFactoryArr(f, <<RootFactoryNum(f)>>))), FaultyDefault),
   removeFaulty(RootFactoryArr(f, <<RootFactoryNum(f)>>)),
   def(stopError(RootFactoryNum(f)), FaultyDefault),
   RootFactoryArr(f, <<RootFactoryCustom(f, "throw")>>)}

\* The values that the user gives to validate().
UserValues == {Num(1), Arr(<<Num(1), Str("bad")>>), Arr(<<Num(1)>>)}

CallInit == Init

\* The user builds a schema with the factory.
NewSchema ==
  /\ heap = NoHeap
  /\ \E m \in Schemas(factory) :
       Op("schema", 0, 0,
          Returned([nodes |-> <<[config |-> m.config, settings |-> 1, meta |-> 1,
                                 key |-> m.key]>>,
                    settings |-> <<m.settings>>,
                    metas |-> <<m.meta>>,
                    objects |-> <<>>], 1))

\* model.validate(value) with a value of the user.
ValidateValue ==
  /\ Len(heap.objects) < MaxObjects
  /\ \E n \in 1..Len(heap.nodes), v \in UserValues :
       /\ Len(Model_validate([heap EXCEPT !.objects =
                                Append(@, [value |-> v, of |-> 0, via |-> "user"])],
                             n, Len(heap.objects) + 1).heap.objects) <= MaxObjects
       /\ Op("validate", n, Len(heap.objects) + 1,
             Model_validate([heap EXCEPT !.objects =
                               Append(@, [value |-> v, of |-> 0, via |-> "user"])],
                            n, Len(heap.objects) + 1))

\* model.validate(value) with an object that was given to validate() or
\* returned by it before.
ValidateObject ==
  \E n \in 1..Len(heap.nodes), k \in 1..Len(heap.objects) :
    /\ Len(Model_validate(heap, n, k).heap.objects) <= MaxObjects
    /\ Op("validate", n, k, Model_validate(heap, n, k))

CallNext ==
  \/ NewSchema
  \/ ValidateValue
  \/ ValidateObject

CallSpec == CallInit /\ [][CallNext]_vars

-----------------------------------------------------------------------------
(* validate() calls in progress at the same time (src/src/models.ts, lines *)
(* 236-244): a call started inside a custom function of another call, or   *)
(* calls of several callers.  A call makes its Context, works on it as the *)
(* validators do, and returns what returnResult() makes of it.             *)

\* A faulty `new Context()` that hands out the Context that exists.
SharedContext(contexts, config, settings) ==
  IF contexts = <<>> THEN <<NewContext(config, settings)>> ELSE contexts

\* const ctx = new Context(this._config, this._settings): the new object is
\* the last one.
NewContextObject(contexts, config, settings) ==
  Append(contexts, NewContext(config, settings))

\* The calls that the validators make on the Context.
ContextCalls == {"pushKey", "enterOnlyWarning", "throwFaultyValueError"}

\* The Context after the call `name` on it.
ContextCall(ctx, name) ==
  CASE name = "pushKey" -> pushKey(ctx, KeyName("a"))
    [] name = "enterOnlyWarning" -> enterOnlyWarning(ctx)
    [] OTHER -> addError(ctx, errorDetailsFaultyValueError(getPathAsStr(ctx), "1", ""))

\* What validate() returns for the Context as the validators left it.
ResultOf(ctx) == returnResult(ctx, Ret(ctx, ctx.errorDetails = <<>>, Null))

\* Another call than c is in progress.
OtherInProgress(c) ==
  \E o \in Calls \ {c} : running.calls[o].ctx # 0 /\ ~running.calls[o].done

RunInit ==
  /\ Init
  /\ factory = RootFactory(DefaultConfig(FALSE, 0))

\* validate() begins: new Context, ctx.pushKey(this.key).
StartCall ==
  \E c \in Calls :
    /\ running.calls[c].ctx = 0
    /\ running' =
         [contexts |-> [NewContextObject(running.contexts, root.config, root.settings)
                          EXCEPT ![Len(NewContextObject(running.contexts, root.config,
                                                        root.settings))] =
                                    pushKey(@, root.key)],
          calls |-> [running.calls EXCEPT ![c].ctx =
                       Len(NewContextObject(running.contexts, root.config,
                                            root.settings))]]
    /\ UNCHANGED <<sessionVars, stackVars, contextVars, nodeVars>>

\* A validator of the call c calls its Context.
StepCall ==
  \E c \in Calls, name \in ContextCalls :
    /\ running.calls[c].ctx # 0
    /\ ~running.calls[c].done
    /\ Len(running.calls[c].script) < MaxSteps
    /\ running' =
         [contexts |-> [running.contexts EXCEPT ![running.calls[c].ctx] =
                          ContextCall(@, name)],
          calls |-> [running.calls EXCEPT
                       ![c].script = Append(@, name),
                       ![c].overlapped = @ \/ OtherInProgress(c)]]
    /\ UNCHANGED <<sessionVars, stackVars, contextVars, nodeVars>>

\* validate() of the call c returns: ctx.returnResult(...).
FinishCall ==
  \E c \in Calls :
    /\ running.calls[c].ctx # 0
    /\ ~running.calls[c].done
    /\ running' =
         [running EXCEPT !.calls[c].done = TRUE,
                         !.calls[c].result =
                            ResultOf(running.contexts[running.calls[c].ctx])]
    /\ UNCHANGED <<sessionVars, stackVars, contextVars, nodeVars>>

RunNext ==
  \/ StartCall
  \/ StepCall
  \/ FinishCall

RunSpec == RunInit /\ [][RunNext]_vars

-----------------------------------------------------------------------------
(* getConfigureError() on the models of a session that builds them and     *)
(* validates nothing.                                                      *)

ConfigInit == Init

\* root.getConfigureError()
GetConfigureError ==
  /\ stage # "new"
  /\ ~collected.called
  /\ collected' = [called |-> TRUE, of |-> root, errors |-> getConfigureError(root).errors]
  /\ root' = getConfigureError(root).model
  /\ UNCHANGED <<factory, stage, input, output>>
  /\ UNCHANGED <<stackVars, contextVars, nodeVars, runVars>>

ConfigNext ==
  \/ FactoryNum
  \/ FactoryEnum
  \/ FactoryCustom
  \/ FactoryOf
  \/ StopError
  \/ Def
  \/ RemoveFaulty
  \/ Range
  \/ FactoryObj
  \/ FactoryArr
  \/ FactoryTuple
  \/ FactoryUnion
  \/ Pipe
  \/ GetConfigureError

ConfigSpec == ConfigInit /\ [][ConfigNext]_vars

-----------------------------------------------------------------------------
(* The two ways to make a pipe: a session that makes a model, makes a pipe  *)
(* of it and of num() with the method or with the factory, and validates.  *)

PipeInit == Init

\* custom((path, n) => typeof n === 'number'
\*                       ? {ok: true, value: n + 1}
\*                       : {ok: false, value: null, error: {...}})
FactoryTransform == stage = "new" /\ Becomes(RootFactoryCustom(factory, "inc"), "leaf")

\* pipe(root, num()) and pipe(num(), root) of the factory.
FactoryPipe ==
  /\ stage = "leaf"
  /\ \E p \in {RootFactoryPipe(factory, root, <<RootFactoryNum(factory)>>),
               RootFactoryPipe(factory, RootFactoryNum(factory), <<root>>)} :
       Becomes(p, Deeper)

PipeNext ==
  \/ FactoryNum
  \/ FactoryEnum
  \/ FactoryCustom
  \/ FactoryTransform
  \/ StopError
  \/ Def
  \/ Pipe
  \/ FactoryPipe
  \/ Validate

PipeSpec == PipeInit /\ [][PipeNext]_vars

-----------------------------------------------------------------------------
(* Vocabulary of the properties.                                           *)

\* A call of validate() has returned or thrown: `output` is its outcome for
\* `input`.
Validated == input # emptyValue

RECURSIVE Unstopped(_)
\* The model m with stopError() undone on it and on every model below it.
Unstopped(m) ==
  [m EXCEPT !.settings.stopIfError = FALSE,
            !.meta.models = [i \in 1..Len(m.meta.models) |-> Unstopped(m.meta.models[i])]]

RECURSIVE AnyStop(_)
\* m or a model below it stops errors.
AnyStop(m) ==
  m.settings.stopIfError \/ \E i \in 1..Len(m.meta.models) : AnyStop(m.meta.models[i])

\* A model below m stops errors.
StopBelow(m) == \E i \in 1..Len(m.meta.models) : AnyStop(m.meta.models[i])

\* The value v fails the validation of m somewhere in the subtree of m.
Fails(m, v) == ~validate(Unstopped(m), v).ok

\* The model m accepts the value v.
Accepts(m, v) == validate(m, v).ok

\* The model of property `key` of the object model m.
PropModel(m, key) ==
  m.meta.models[CHOOSE i \in 1..Len(m.meta.models) : m.meta.models[i].key = KeyName(key)]

\* The default that a stopping model substitutes.
DefaultOf(m) ==
  IF m.settings.defaultValue = emptyValue THEN Null ELSE m.settings.defaultValue

-----------------------------------------------------------------------------
(* Stop-on-error containment.                                              *)

\* The root is obj({a: num(), b: B}) with B.stopError(), the value has a
\* valid `a`, and its `b` fails in the subtree of B.
StoppedPropertyFails ==
  /\ Validated
  /\ root.meta.type = "obj"
  /\ ~root.settings.stopIfError
  /\ PropModel(root, "b").settings.stopIfError
  /\ isPlainObject(input)
  /\ hasOwn(input, "a") /\ isNumber(GetProp(input, "a"))
  /\ hasOwn(input, "b")
  /\ Fails(PropModel(root, "b"), GetProp(input, "b"))

\* The failure is contained in B: ok:true, b is the default of B, warning.
ContainedInB ==
  /\ ~output.thrown
  /\ output.ok
  /\ output.errors = <<>>
  /\ output.warnings # <<>>
  /\ hasOwn(output.value, "b")
  /\ GetProp(output.value, "b") = DefaultOf(PropModel(root, "b"))

-----------------------------------------------------------------------------
(* The warning of a substituted default.                                   *)

\* Alternative k of the union model u is the one that decides for v: it
\* stops errors, v fails in it, and no alternative before it accepts v.
StoppedAlternative(u, k, v) ==
  /\ u.meta.models[k].settings.stopIfError
  /\ Fails(u.meta.models[k], v)
  /\ \A j \in 1..(k - 1) : ~Accepts(u.meta.models[j], v)

\* The default of a stopError() model stands in the result in place of an
\* item of the array (root = arr([.., X.stopError(), ..])) or of the value
\* itself (root = union(.., X.stopError(), ..)).
SubstitutedDefault ==
  /\ Validated
  /\ ~output.thrown
  /\ output.ok
  /\ \/ /\ root.meta.type = "arr"
        /\ ~root.settings.removeFaulty
        /\ isArray(input) /\ isArray(output.value)
        /\ Len(output.value.a) = Len(input.a)
        /\ \E i \in 1..Len(input.a) :
             \E k \in 1..Len(root.meta.models[1].meta.models) :
               /\ StoppedAlternative(root.meta.models[1], k, input.a[i])
               /\ output.value.a[i] = DefaultOf(root.meta.models[1].meta.models[k])
     \/ /\ root.meta.type = "union"
        /\ \E k \in 1..Len(root.meta.models) :
             /\ StoppedAlternative(root, k, input)
             /\ output.value = DefaultOf(root.meta.models[k])

\* C2 as stated, for a stopError() model that is an array item or a union
\* alternative: when the model fails and its default is substituted, the
\* result of validate() holds at least one warning.
C2_AsStated == SubstitutedDefault => output.warnings # <<>>

-----------------------------------------------------------------------------
(* The shape of a result.                                                  *)

\* C3: every result that validate() returns is ok:true without an error
\* entry, or ok:false with the value null and at least one error entry.
C3_ResultShape ==
  (Validated /\ ~output.thrown)
    => \/ output.ok /\ output.errors = <<>>
       \/ ~output.ok /\ output.value = Null /\ output.errors # <<>>

\* The case of C3: a failure has been returned with the value null, several
\* error entries and a warning.
C3_Witness ==
  /\ Validated
  /\ ~output.thrown
  /\ ~output.ok
  /\ output.value = Null
  /\ Len(output.errors) > 1
  /\ output.warnings # <<>>

-----------------------------------------------------------------------------
(* The aggregate error of a union.                                         *)

\* The model m rejects v by a failure that a validator reports: no custom
\* function throws.
Rejects(m, v) == ~validate(m, v).ok /\ ~validate(m, v).raw

\* The error of UnionModel._validate() for the root.
AggregateError ==
  errorDetailsFaultyValueError(DEFAULT_ROOT_NAME, valueToString(output.arg),
                               "no compatible type")

\* validate() reported the aggregate error and nothing else: as the only
\* error of the result, or as the FaultyValueError thrown.
OnlyAggregateError ==
  IF root.config.throwIfError
  THEN /\ output.thrown
       /\ output.cls = "FaultyValueError"
       /\ output.detail = AggregateError
  ELSE /\ ~output.thrown
       /\ ~output.ok
       /\ output.value = Null
       /\ output.errors = <<AggregateError>>
       /\ output.warnings = <<>>

\* The root is a union outside any scope.
RootUnion ==
  /\ Validated
  /\ root.meta.type = "union"
  /\ ~root.settings.stopIfError

-----------------------------------------------------------------------------
(* The order of the alternatives of a union.                               *)

\* Alternative k of the root union is the first that accepts the input;
\* those before it reject it.
FirstAccepting(k) ==
  /\ Validated
  /\ root.meta.type = "union"
  /\ k \in 1..Len(root.meta.models)
  /\ Accepts(root.meta.models[k], input)
  /\ \A j \in 1..(k - 1) : Rejects(root.meta.models[j], input)

\* No alternative after the k-th was entered: the alternatives of the root
\* are the models entered at depth 2, alternative i under the key i - 1.
NoneEnteredAfter(k) ==
  \A j \in 1..Len(output.visited) :
    output.visited[j].depth = 2 => output.visited[j].key.n < k

\* C5: the union returns the value of the first alternative, in the order
\* of declaration, that accepts the input, and evaluates no alternative
\* declared after it.
C5_FirstMatchWins ==
  \A k \in 1..Len(root.meta.models) :
    FirstAccepting(k)
      => /\ ~output.thrown
         /\ output.ok
         /\ output.value = validate(root.meta.models[k], input).value
         /\ NoneEnteredAfter(k)

\* The case of C5: union(1, custom(() => ({ok: true, value: 'X'}))) validated
\* with 1, which both alternatives accept, returned 1 and did not call the
\* custom function.
C5_Witness ==
  /\ FirstAccepting(1)
  /\ root.meta.models[1].meta.type = "literal"
  /\ root.meta.models[2].meta.fn = "okX"
  /\ Accepts(root.meta.models[2], input)
  /\ output.value = Num(1)
  /\ NoneEnteredAfter(1)

-----------------------------------------------------------------------------
(* removeFaulty() with a range.                                            *)

RECURSIVE Kept(_, _, _)
\* What the item matcher u returns for the items, from the i-th on, that it
\* accepts, in their order.
Kept(u, items, i) ==
  IF i > Len(items) THEN <<>>
  ELSE IF Accepts(u, items[i])
  THEN <<validate(u, items[i]).value>> \o Kept(u, items, i + 1)
  ELSE Kept(u, items, i + 1)

\* The indexes of the items that the item matcher u rejects.
Dropped(u, items) == {i \in 1..Len(items) : ~Accepts(u, items[i])}

\* The warnings of the result for item i of the root array.
WarningsOfItem(i) ==
  {j \in 1..Len(output.warnings) :
     /\ output.warnings[j].propertyPath
          = propertyPathToString(<<KeyNull, KeyIdx(i - 1)>>)
     /\ output.warnings[j].valueOrType = valueToString(input.a[i])}

\* The root is arr([..]).removeFaulty().range(min, max), the input is an
\* array, and the number of items that the matcher accepts is in the range.
RemainingInRange ==
  /\ Validated
  /\ root.meta.type = "arr"
  /\ root.settings.removeFaulty
  /\ root.meta.min # <<>>
  /\ isArray(input)
  /\ checkMinMax(root, Len(Kept(root.meta.models[1], input.a, 1))) = 0

\* The result is ok:true with the accepted items in their order.
RemainingReturned ==
  /\ ~output.thrown
  /\ output.ok
  /\ output.value = Arr(Kept(root.meta.models[1], input.a, 1))

-----------------------------------------------------------------------------
(* The warnings of the items that removeFaulty() drops.                    *)

\* The root is arr([arr([..]).removeFaulty()]) and item i of the result has
\* fewer items than item i of the input: the inner array dropped some.
InnerItemDropped ==
  /\ Validated
  /\ root.meta.type = "arr"
  /\ Len(root.meta.models[1].meta.models) = 1
  /\ root.meta.models[1].meta.models[1].meta.type = "arr"
  /\ root.meta.models[1].meta.models[1].settings.removeFaulty
  /\ ~output.thrown
  /\ output.ok
  /\ isArray(input) /\ isArray(output.value)
  /\ Len(output.value.a) = Len(input.a)
  /\ \E i \in 1..Len(input.a) :
       /\ isArray(input.a[i]) /\ isArray(output.value.a[i])
       /\ Len(output.value.a[i].a) < Len(input.a[i].a)

\* C7 as stated, for an array with removeFaulty() that is an item of
\* another array: the items it drops are reported by a warning in the
\* result of validate().
C7_AsStated == InnerItemDropped => output.warnings # <<>>

-----------------------------------------------------------------------------
(* stopError() and removeFaulty() on the same array.                       *)

\* Every item of the input is in the result, as the item matcher of the
\* root returns it: the default of the stopping model (null when none) for
\* an item that fails, and nothing is removed.
ItemsReplaced ==
  /\ ~output.thrown
  /\ output.ok
  /\ isArray(output.value)
  /\ Len(output.value.a) = Len(input.a)
  /\ \A i \in 1..Len(input.a) :
       /\ output.value.a[i] = validate(root.meta.models[1], input.a[i]).value
       /\ Fails(root.meta.models[1], input.a[i])
            => \E k \in 1..Len(root.meta.models[1].meta.models) :
                 output.value.a[i]
                   \in {Null, DefaultOf(root.meta.models[1]),
                        DefaultOf(root.meta.models[1].meta.models[k])}

\* The root array has removeFaulty, and a set of input items.
RemovingRoot ==
  /\ Validated
  /\ root.meta.type = "arr"
  /\ root.settings.removeFaulty
  /\ root.meta.min = <<>>
  /\ isArray(input)
  /\ ~output.raw

-----------------------------------------------------------------------------
(* Exceptions and scopes.                                                  *)

-----------------------------------------------------------------------------
(* throwIfError.                                                           *)

RECURSIVE WithThrowIfError(_, _)
\* The model m as a factory with throwIfError = b builds it.
WithThrowIfError(m, b) ==
  [m EXCEPT !.config.throwIfError = b,
            !.meta.models = [i \in 1..Len(m.meta.models) |->
                               WithThrowIfError(m.meta.models[i], b)]]

\* The sequence a is a prefix of the sequence b.
IsPrefix(a, b) == Len(a) <= Len(b) /\ SubSeq(b, 1, Len(a)) = a

\* The classes of the failures that the validators report.
ReportedClasses == {"FaultyValueError", "RequiredPropertyError", "NotConfiguredError"}

\* What validate() gives for `input` when throwIfError is unset.
InBand == validate(WithThrowIfError(root, FALSE), input)

Entered(key) ==
  \E j \in 1..Len(output.visited) :
     output.visited[j].depth = 2 /\ output.visited[j].key = KeyName(key)

-----------------------------------------------------------------------------
(* Exceptions of custom functions.                                         *)

\* The result carries an UnknownError in details.errors.
CarriesUnknownError ==
  /\ ~output.thrown
  /\ ~output.ok
  /\ output.value = Null
  /\ \E i \in 1..Len(output.errors) : output.errors[i].code = "UnknownError"

\* validate() throws an UnknownError.
ThrowsUnknownError ==
  /\ output.thrown
  /\ output.cls = "UnknownError"
  /\ output.detail.code = "UnknownError"

ThrowingCustom(m) == m.meta.type = "custom" /\ m.meta.fn = "throw"

\* A custom function throws in the subtree of a stopError() model: the model
\* is the root, or property b of the root object, whose property a is valid.
ThrowUnderStop ==
  /\ Validated
  /\ \/ ThrowingCustom(root) /\ root.settings.stopIfError
     \/ /\ root.meta.type = "obj"
        /\ ThrowingCustom(PropModel(root, "b"))
        /\ PropModel(root, "b").settings.stopIfError
        /\ isPlainObject(input)
        /\ hasOwn(input, "a") /\ isNumber(GetProp(input, "a"))
        /\ hasOwn(input, "b")

-----------------------------------------------------------------------------
(* SafeStack: safe release.                                                *)

\* The TStackNode k is on the stack.
OnStack(stack, k) == \E i \in 1..Len(stack) : stack[i].node = k

\* The last call released the node `lastCall.node`, which was on the stack.
ReleasedEntry == lastCall.op = "release" /\ OnStack(lastCall.was, lastCall.node)

\* The last call was a release() whose node was on the stack no more.
ReleasedAgain == lastCall.op = "release" /\ ~OnStack(lastCall.was, lastCall.node)

\* C14: a release() whose entry is on the stack, on top or not, leaves the
\* stack as it was when that entry was pushed: the entry and every entry
\* pushed after it are gone, released before or not, and the entries under
\* it stay.
C14_SafeRelease == ReleasedEntry => tracker = pushedOn[lastCall.node]

\* The case of C14: the released entry had two entries above it, and an
\* entry under it stays.
C14_Witness ==
  /\ ReleasedEntry
  /\ Len(lastCall.was) >= Len(pushedOn[lastCall.node]) + 3
  /\ tracker # <<>>

\* C15: a release() whose entry is on the stack no more, removed by an
\* earlier call of itself or by the release of an entry under it, leaves the
\* stack unchanged.
C15_ReleaseIdempotent == ReleasedAgain => tracker = lastCall.was

\* The case of C15: the entry was removed before, other entries were pushed
\* since, and the stack is not empty when release() is called again.
C15_Witness ==
  /\ ReleasedAgain
  /\ Len(tracker) >= 2
  /\ tracker[Len(tracker)].node > lastCall.node

-----------------------------------------------------------------------------
(* Context.addError() and the scopes.                                      *)

\* The list with the detail registered: appended, unless an equal detail is
\* in the list.
Registered(list, detail) ==
  IF \E i \in 1..Len(list) : list[i] = detail THEN list ELSE Append(list, detail)

\* The last call was addError().
ErrorAdded == lastAdd.op = "addError"

\* C16: addError() records nothing while the type-matching stack is not
\* empty; otherwise it registers the detail as a warning when the
\* warning-only or the stop-on-error stack is not empty, and as an error
\* only when the three stacks are empty; it changes nothing else.
C16_AddErrorByScope ==
  ErrorAdded =>
     /\ context.errorDetails =
          IF /\ lastAdd.was.typeMatchingControl = <<>>
             /\ lastAdd.was.warningControl = <<>>
             /\ lastAdd.was.stopErrorControl = <<>>
          THEN Registered(lastAdd.was.errorDetails, lastAdd.detail)
          ELSE lastAdd.was.errorDetails
     /\ context.warnDetails =
          IF /\ lastAdd.was.typeMatchingControl = <<>>
             /\ \/ lastAdd.was.warningControl # <<>>
                \/ lastAdd.was.stopErrorControl # <<>>
          THEN Registered(lastAdd.was.warnDetails, lastAdd.detail)
          ELSE lastAdd.was.warnDetails
     /\ context = [lastAdd.was EXCEPT !.errorDetails = context.errorDetails,
                                      !.warnDetails = context.warnDetails]

\* The case of C16: with the type-matching stack empty and the
\* stop-on-error stack not, addError() appended a second warning and left
\* the errors registered before as they were.
C16_Witness ==
  /\ ErrorAdded
  /\ lastAdd.was.typeMatchingControl = <<>>
  /\ lastAdd.was.stopErrorControl # <<>>
  /\ lastAdd.was.errorDetails # <<>>
  /\ Len(context.warnDetails) = 2
  /\ Len(lastAdd.was.warnDetails) = 1

-----------------------------------------------------------------------------
(* validate() called again with the same argument.                         *)

\* The second call: the same node, and the argument as the first call left
\* it.
Again == validate(root, output.arg)

\* The first call returned ok:true.
ReturnedOk == Validated /\ ~output.thrown /\ output.ok

\* The first call changed its argument.
Rewritten == output.arg # input

-----------------------------------------------------------------------------
(* Frozen models and the modifiers.                                        *)

\* The values that the models of `heap` are asked to validate.
Probes == {Num(3), Num(7), Num(12), Str("bad")}

\* The Model a of the heap g validates as the Model b of the heap h does.
ValidatesAs(g, a, h, b) ==
  \A v \in Probes : validate(ModelAt(g, a), v) = validate(ModelAt(h, b), v)

\* The last call was a modifier.
Modified == lastOp.op \in {"stopError", "def", "min", "max"}

\* The last call was a modifier on a frozen Model.
ModifiedFrozen == Modified /\ isFrozen(ModelAt(lastOp.was, lastOp.node))

\* The Model had what the modifier asked for.
AlreadySet ==
  CASE lastOp.op = "stopError" -> SettingsAt(lastOp.was, lastOp.node).stopIfError
    [] lastOp.op = "def" ->
         isEqualDefaultValue(SettingsAt(lastOp.was, lastOp.node), Num(lastOp.arg))
    [] lastOp.op = "min" -> MetadataAt(lastOp.was, lastOp.node).min = <<lastOp.arg>>
    [] lastOp.op = "max" -> MetadataAt(lastOp.was, lastOp.node).max = <<lastOp.arg>>
    [] OTHER -> FALSE

\* The call returned a Model that was not there before.
ReturnedNew == lastOp.thrown = "" /\ lastOp.ret = Len(lastOp.was.nodes) + 1

\* The configuration errors throw.
ConfigureThrows == lastOp.was.nodes[lastOp.node].config.throwIfConfigureError

-----------------------------------------------------------------------------
(* The models that min() returns.                                          *)

\* The bounds of the Model n.
Bounds(h, n) == <<MetadataAt(h, n).min, MetadataAt(h, n).max, MetadataAt(h, n).exclusive>>

\* The Model n rejects the numbers below the bound lo (<<>>: no bound) and
\* no other number that its upper bound allows.
UsesOnly(h, n, lo) ==
  \A v \in Probes :
    (isNumber(v) /\ (MetadataAt(h, n).max = <<>> \/ v.n <= MetadataAt(h, n).max[1]))
      => (Fails(ModelAt(h, n), v) <=> (lo # <<>> /\ v.n < lo[1]))

\* The last call was min() and it returned a Model.
MinReturned == lastOp.op = "min" /\ lastOp.thrown = ""

\* min(k) can be applied: the Model is not frozen and k is not above its
\* upper bound.
MinApplies ==
  /\ ~isFrozen(ModelAt(lastOp.was, lastOp.node))
  /\ \/ MetadataAt(lastOp.was, lastOp.node).max = <<>>
     \/ lastOp.arg <= MetadataAt(lastOp.was, lastOp.node).max[1]

-----------------------------------------------------------------------------
(* validate() and the node.                                                *)

\* The last call was validate().
ValidateCalled == lastOp.op = "validate"

\* C20: validate() leaves the Model objects, their Settings and their
\* Metadata as they were, whether it returns ok:true, returns ok:false or
\* throws, and whatever it was given: a value of the user, or an object
\* that an earlier call returned or rewrote.
C20_ValidateKeepsNode ==
  ValidateCalled => /\ heap.nodes = lastOp.was.nodes
                    /\ heap.settings = lastOp.was.settings
                    /\ heap.metas = lastOp.was.metas

\* The case of C20: the object given to validate() is what an earlier call
\* returned as the default of the Model, and this call removed an item from
\* it; the default of the Model still has the item.
C20_Witness ==
  /\ ValidateCalled
  /\ lastOp.arg <= Len(lastOp.was.objects)
  /\ heap.objects[lastOp.arg].via = "default"
  /\ lastOp.was.objects[lastOp.arg].value = FaultyDefault
  /\ heap.objects[lastOp.arg].value = Arr(<<Num(1)>>)
  /\ SettingsAt(heap, lastOp.node).defaultValue = FaultyDefault

-----------------------------------------------------------------------------
(* What the modifiers return.                                              *)

\* The last call was freeze().
Froze == lastOp.op = "freeze"

\* The bound that the modifier asked for agrees with the other bound.
BoundApplies ==
  CASE lastOp.op = "min" ->
         \/ MetadataAt(lastOp.was, lastOp.node).max = <<>>
         \/ lastOp.arg <= MetadataAt(lastOp.was, lastOp.node).max[1]
    [] lastOp.op = "max" ->
         \/ MetadataAt(lastOp.was, lastOp.node).min = <<>>
         \/ lastOp.arg >= MetadataAt(lastOp.was, lastOp.node).min[1]
    [] OTHER -> TRUE

-----------------------------------------------------------------------------
(* Calls of validate() in progress at the same time.                       *)

RECURSIVE Alone(_, _)
\* The Context of a call that runs alone, after the first k calls of
\* `script` on it.
Alone(script, k) ==
  IF k = 0 THEN pushKey(NewContext(root.config, root.settings), root.key)
  ELSE ContextCall(Alone(script, k - 1), script[k])

\* The Context of the call c as it is when the call runs alone.
AloneContext(c) == Alone(running.calls[c].script, Len(running.calls[c].script))

-----------------------------------------------------------------------------
(* Required properties of an object.                                       *)

\* The i-th declared property of the object model m is the first that the
\* object v lacks: it is not optional, and the properties declared before it
\* are there and are accepted.
FirstLacking(m, v, i) ==
  /\ ~m.meta.models[i].settings.optional
  /\ ~hasOwn(v, m.meta.models[i].key.s)
  /\ \A j \in 1..(i - 1) :
       /\ hasOwn(v, m.meta.models[j].key.s)
       /\ Accepts(m.meta.models[j], GetProp(v, m.meta.models[j].key.s))

\* The root is an object model and the value is an object that lacks the
\* i-th declared property.
RootLacks(i) ==
  /\ Validated
  /\ root.meta.type = "obj"
  /\ isPlainObject(input)
  /\ i \in 1..Len(root.meta.models)
  /\ FirstLacking(root, input, i)

\* The path of the property `key` of the root object, as a string.
RootPathOf(key) == IF key = "a" THEN "<root>.a" ELSE "<root>.b"

\* The RequiredPropertyError of the i-th declared property of the root.
RequiredOfRoot(i) ==
  errorDetailsRequiredPropertyError(RootPathOf(root.meta.models[i].key.s),
                                    root.meta.models[i].key.s)

\* C23 as stated: an object that lacks a declared property which is not
\* optional gives ok:false and a RequiredPropertyError with the path
\* '<root>.<key>' of the property.
C23_AsStated ==
  \A i \in 1..MaxLen :
    RootLacks(i) =>
      /\ ~output.thrown
      /\ ~output.ok
      /\ \E e \in 1..Len(output.errors) : output.errors[e] = RequiredOfRoot(i)

\* C23: an object that lacks a declared property which is not optional is
\* reported by a RequiredPropertyError with the path '<root>.<key>' of the
\* property: the first error of ok:false when nothing stops or throws, the
\* exception when throwIfError is set, and a warning of ok:true with the
\* default of the object when the object stops errors.
C23_RequiredProperty ==
  \A i \in 1..MaxLen :
    RootLacks(i) =>
      IF root.settings.stopIfError
      THEN /\ ~output.thrown
           /\ output.ok
           /\ output.value = DefaultOf(root)
           /\ \E w \in 1..Len(output.warnings) : output.warnings[w] = RequiredOfRoot(i)
      ELSE IF root.config.throwIfError
      THEN /\ output.thrown
           /\ output.cls = "RequiredPropertyError"
           /\ output.detail = RequiredOfRoot(i)
      ELSE /\ ~output.thrown
           /\ ~output.ok
           /\ output.value = Null
           /\ output.errors # <<>>
           /\ output.errors[Len(output.errors)] = RequiredOfRoot(i)

\* The case of C23: {a: 1} was validated by an object model that declares
\* `a` and `b`, and ok:false came with the RequiredPropertyError of
\* '<root>.b'.
C23_Witness ==
  /\ RootLacks(2)
  /\ hasOwn(input, "a")
  /\ ~output.thrown
  /\ ~output.ok
  /\ output.errors = <<errorDetailsRequiredPropertyError("<root>.b", "b")>>

-----------------------------------------------------------------------------
(* The length of a tuple.                                                  *)

\* The root is a tuple and the value is an array of another length.
RootTupleMismatch ==
  /\ Validated
  /\ root.meta.type = "tuple"
  /\ isArray(input)
  /\ Len(input.a) # Len(root.meta.models)

\* The FaultyValueError of TupleModel._validate() for the length of `input`.
LengthMismatch == errorDetailsFaultyValueError("<root>", valueToString(input), "tuple.length")

\* validate() rejected the value by the length mismatch alone: it threw it,
\* or returned ok:false with it as the one error.
RejectedByLength ==
  IF output.thrown
  THEN output.cls = "FaultyValueError" /\ output.detail = LengthMismatch
  ELSE ~output.ok /\ output.value = Null /\ output.errors = <<LengthMismatch>>

\* No model below the root was entered.
NoElementEntered == \A j \in 1..Len(output.visited) : output.visited[j].depth = 1

\* C24 as stated: a tuple with n declared positions rejects every array
\* whose length differs from n, shorter or longer, with a length-mismatch
\* FaultyValueError, without validating any element.
C24_AsStated == RootTupleMismatch => (RejectedByLength /\ NoElementEntered)

\* C24: a tuple with n declared positions validates no element of an array
\* whose length differs from n, shorter or longer; it rejects the array with
\* a length-mismatch FaultyValueError unless the tuple stops errors, and
\* then it returns ok:true with its default and the length mismatch as the
\* one warning.
C24_LengthChecked ==
  RootTupleMismatch =>
    /\ NoElementEntered
    /\ IF root.settings.stopIfError
       THEN /\ ~output.thrown
            /\ output.ok
            /\ output.value = DefaultOf(root)
            /\ output.warnings = <<LengthMismatch>>
       ELSE RejectedByLength

\* The case of C24: an array longer than the tuple, whose leading elements
\* the positions of the tuple accept, was rejected by its length.
C24_Witness ==
  /\ RootTupleMismatch
  /\ Len(input.a) > Len(root.meta.models)
  /\ \A i \in 1..Len(root.meta.models) : Accepts(root.meta.models[i], input.a[i])
  /\ RejectedByLength
  /\ NoElementEntered

-----------------------------------------------------------------------------
(* The stages of a pipe.                                                   *)

\* The root is a pipe.
RootPipe == Validated /\ root.meta.type = "pipe"

RECURSIVE Passed(_)
\* The value that stage i of the root pipe is to receive: the argument of
\* validate() for the first stage, and what the stage before returns for
\* its own value for the others.
Passed(i) ==
  IF i = 1 THEN input ELSE validate(root.meta.models[i - 1], Passed(i - 1)).value

\* The stages before stage k accept what they receive.
AcceptedBefore(k) ==
  \A i \in 1..(k - 1) : Accepts(root.meta.models[i], Passed(i))

\* Stage k is the first that fails.
FirstFailing(k) ==
  /\ k \in 1..Len(root.meta.models)
  /\ AcceptedBefore(k)
  /\ ~Accepts(root.meta.models[k], Passed(k))

\* The models entered below the root, in the order of entering.
EnteredBelow == SelectSeq(output.visited, LAMBDA e : e.depth = 2)

\* The first k stages were entered, each once, in the order of declaration,
\* and no other.
EnteredStages(k) ==
  /\ Len(EnteredBelow) = k
  /\ \A j \in 1..k : EnteredBelow[j].type = root.meta.models[j].meta.type

\* All stages accepted: the pipe returns what the last stage returns for
\* the value of the stage before it.
PipeThrough ==
  AcceptedBefore(Len(root.meta.models) + 1) =>
    /\ ~output.thrown
    /\ output.ok
    /\ output.value = Passed(Len(root.meta.models) + 1)
    /\ EnteredStages(Len(root.meta.models))

-----------------------------------------------------------------------------
(* The configuration errors that getConfigureError() returns.              *)

RECURSIVE Recorded(_, _)
\* The configuration errors recorded on m and on every model below it, under
\* whatever kind of container, each with the path from the receiver, whose
\* path so far is `path`, to the model that recorded it.
Recorded(m, path) ==
  {[m.meta.errors[i] EXCEPT !.propertyPath = propertyPathToString(Append(path, m.key))] :
     i \in 1..Len(m.meta.errors)}
  \cup UNION {Recorded(m.meta.models[j], Append(path, m.key)) :
                j \in 1..Len(m.meta.models)}

\* The set of the details that getConfigureError() returned.
Collected == {collected.errors[i] : i \in 1..Len(collected.errors)}

\* C26 as stated: getConfigureError() returns every configuration error
\* recorded on the node and on all nodes nested below it, at any depth and
\* under any container kind, each with the path from the receiver to the
\* node that recorded it.
C26_AsStated == collected.called => Collected = Recorded(collected.of, <<>>)

RECURSIVE RecordedOutsideArrays(_, _)
\* The configuration errors recorded on m and on the models below it that
\* no array is in the way to.
RecordedOutsideArrays(m, path) ==
  {[m.meta.errors[i] EXCEPT !.propertyPath = propertyPathToString(Append(path, m.key))] :
     i \in 1..Len(m.meta.errors)}
  \cup IF m.meta.type = "arr" THEN {}
       ELSE UNION {RecordedOutsideArrays(m.meta.models[j], Append(path, m.key)) :
                     j \in 1..Len(m.meta.models)}

\* What getConfigureError() does return: the errors of the node and of the
\* nodes below it that are not below an array.
C26_ArraysLeftOut ==
  collected.called => Collected = RecordedOutsideArrays(collected.of, <<>>)

\* The case of C26: getConfigureError() was called on an object whose
\* property b is a model with a configuration error, and returned the error
\* with the path '<root>.b'.
C26_Witness ==
  /\ collected.called
  /\ collected.of.meta.type = "obj"
  /\ collected.errors = <<Detail("ConfigureError", "<root>.b", "", "", "of(value)")>>

-----------------------------------------------------------------------------
(* The consistency of the bounds.                                          *)

\* min <= max on the Model n when it has both bounds.
Consistent(h, n) ==
  (MetadataAt(h, n).min # <<>> /\ MetadataAt(h, n).max # <<>>)
    => MetadataAt(h, n).min[1] <= MetadataAt(h, n).max[1]

\* The last call was min(), max() or range() with a bound that would make
\* min exceed max on the Model it was called on.
WouldExceed ==
  CASE lastOp.op = "min" ->
         /\ MetadataAt(lastOp.was, lastOp.node).max # <<>>
         /\ lastOp.arg > MetadataAt(lastOp.was, lastOp.node).max[1]
    [] lastOp.op = "max" ->
         /\ MetadataAt(lastOp.was, lastOp.node).min # <<>>
         /\ lastOp.arg < MetadataAt(lastOp.was, lastOp.node).min[1]
    [] lastOp.op = "range" -> lastOp.arg[2] < lastOp.arg[1]
    [] OTHER -> FALSE

\* The Metadata of the Model n holds a ConfigureError.
HasConfigureError(h, n) ==
  \E i \in 1..Len(MetadataAt(h, n).errors) : MetadataAt(h, n).errors[i].code = "ConfigureError"

\* C27: on every node that a sequence of min(), max() and range() calls
\* reaches, min <= max when both bounds are set; a call that would make min
\* exceed max makes no node, leaves the bounds of every node as they were,
\* records a ConfigureError on the node it was called on, and throws it
\* when throwIfConfigureError is set and only then.
C27_RangeConsistent ==
  /\ \A n \in 1..Len(heap.nodes) : Consistent(heap, n)
  /\ WouldExceed =>
       /\ Len(heap.nodes) = Len(lastOp.was.nodes)
       /\ \A n \in 1..Len(heap.nodes) : Bounds(heap, n) = Bounds(lastOp.was, n)
       /\ HasConfigureError(heap, lastOp.node)
       /\ IF ConfigureThrows THEN lastOp.thrown = "ConfigureError"
          ELSE lastOp.thrown = "" /\ lastOp.ret = lastOp.node

\* The case of C27: max(5) was called on a Model with min = 10 that had no
\* configuration error; the call returned the Model with its bounds as they
\* were and a ConfigureError, and a Model with both bounds exists.
C27_Witness ==
  /\ lastOp.op = "max"
  /\ WouldExceed
  /\ ~HasConfigureError(lastOp.was, lastOp.node)
  /\ HasConfigureError(heap, lastOp.node)
  /\ lastOp.ret = lastOp.node
  /\ Bounds(heap, lastOp.node) = Bounds(lastOp.was, lastOp.node)
  /\ \E n \in 1..Len(heap.nodes) :
       MetadataAt(heap, n).min # <<>> /\ MetadataAt(heap, n).max # <<>>

-----------------------------------------------------------------------------
(* The scopes of a Context when validate() is over.                        *)

\* The Context of the call root.validate(input) as the validators left it,
\* when validate() returns or throws.
FinalContext ==
  VALIDATE(root, pushKey(NewContext(root.config, root.settings), root.key), input).ctx

\* No scope of the Context is entered and no model is tracked.
AllClosed(ctx) ==
  /\ SafeStackIsEmpty(ctx.typeMatchingControl)
  /\ SafeStackIsEmpty(ctx.warningControl)
  /\ SafeStackIsEmpty(ctx.stopErrorControl)
  /\ SafeStackIsEmpty(ctx.modelTracker)

\* C28: when validate() returns or throws, the type-matching, warning-only,
\* stop-on-error and model-tracking stacks of its Context are empty: every
\* scope that the traversal entered has been closed.
C28_ScopesClosed == Validated => AllClosed(FinalContext)

\* The case of C28: validate() threw an exception that was thrown inside a
\* scope, three models deep, after the Context had made five entries on
\* its stacks or more; the stacks are empty.
C28_Witness ==
  /\ Validated
  /\ output.thrown
  /\ output.scoped
  /\ \E j \in 1..Len(output.visited) : output.visited[j].depth >= 3
  /\ FinalContext.nodes >= 5
  /\ AllClosed(FinalContext)

-----------------------------------------------------------------------------
(* A union with an alternative that stops errors.                          *)

\* Alternative k of the root union is the first that stops errors, and
\* the alternatives before it reject the input.
FirstStopping(k) ==
  /\ Validated
  /\ root.meta.type = "union"
  /\ k \in 1..Len(root.meta.models)
  /\ root.meta.models[k].settings.stopIfError
  /\ \A j \in 1..(k - 1) :
       /\ ~root.meta.models[j].settings.stopIfError
       /\ Rejects(root.meta.models[j], input)

\* Alternative k does not match the input, and no model below it stops the
\* error before the alternative does.
Unmatched(k) == Fails(root.meta.models[k], input) /\ ~StopBelow(root.meta.models[k])

\* What alternative k gives for the input: its default, or null, when the
\* input does not match, and else what its own validation returns.
StoppedValue(k) ==
  IF Unmatched(k) THEN DefaultOf(root.meta.models[k])
  ELSE validate(root.meta.models[k], input).value

\* The union returned the value of alternative k and entered no alternative
\* after it.
ReturnedStopped(k) ==
  /\ ~output.thrown
  /\ output.ok
  /\ output.value = StoppedValue(k)
  /\ NoneEnteredAfter(k)

ThrowsIn(k) == validate(WithThrowIfError(root.meta.models[k], FALSE), input).raw

-----------------------------------------------------------------------------
(* The pipe of the factory and the pipe of a model.                        *)

\* The first and the last stage of the root pipe.
FirstStage == root.meta.models[1]
LastStage == root.meta.models[Len(root.meta.models)]

\* The root is the pipe that the factory makes of its first and its last
\* stage: pipe(m1, m2).
BuiltByFactory ==
  /\ root.meta.type = "pipe"
  /\ root = RootFactoryPipe(factory, FirstStage, <<LastStage>>)

\* What a call of validate() gives to its caller.
Visible(r) ==
  [thrown |-> r.thrown, cls |-> r.cls, detail |-> r.detail, ok |-> r.ok,
   value |-> r.value, errors |-> r.errors, warnings |-> r.warnings]

\* pipe(m1, m2) returned for the input what m1.pipe(m2) returns for it.
SameResult == Visible(output) = Visible(validate(pipe(FirstStage, <<LastStage>>), input))

\* C30 as stated: the pipe(m1, m2) of the factory has the stages of
\* m1.pipe(m2), which are m1 and m2, each once, and both return the same
\* result for every input.
C30_AsStated ==
  BuiltByFactory =>
    /\ root.meta.models = pipe(FirstStage, <<LastStage>>).meta.models
    /\ Validated => SameResult

\* The conclusion of C30 alone: both forms return the same result.
C30_SameResultAsStated == (BuiltByFactory /\ Validated) => SameResult

\* What the code does: the pipe(m1, m2) of the factory has the stages m1,
\* m1 and m2, and returns what m1.pipe(m1, m2) returns.
C30_FirstStageTwice ==
  BuiltByFactory =>
    /\ root.meta.models = <<FirstStage, FirstStage, LastStage>>
    /\ Validated => output = validate(pipe(FirstStage, <<FirstStage, LastStage>>), input)

\* The case of C30: pipe(m1, num()) of the factory, with m1 a function that
\* adds one, was validated with 1 and returned 3, and m1.pipe(num())
\* returns 2 for it.
C30_Witness ==
  /\ BuiltByFactory
  /\ Validated
  /\ FirstStage.meta.fn = "inc"
  /\ input = Num(1)
  /\ output.ok
  /\ output.value = Num(3)
  /\ validate(pipe(FirstStage, <<LastStage>>), input).value = Num(2)

====
